---- MODULE Spec2Model ----
(***************************************************************************)
(* ClipboardHistory: the history store (app/database.py), the clipboard   *)
(* listener (app/clipboard_monitor.py) and the paste engine               *)
(* (app/paste_engine.py) as one state machine.                             *)
(*                                                                         *)
(* Text is a sequence of one-character strings, a payload a sequence of   *)
(* bytes, an SQL NULL the empty tuple and a present column value v the    *)
(* one-element tuple <<v>>.  Timestamps are readings of time.time() in    *)
(* seconds; the clock never runs backwards and two inserts never read the *)
(* same value (an insert takes one second of the clock).                  *)
(***************************************************************************)
EXTENDS Integers, Sequences, FiniteSets, TLC

\* ------------------------------------------------------------------------
\* Program constants (database.py) and the scaled sizes of config.py
\* ------------------------------------------------------------------------

\* database.py:13
AUTO_EXPIRE_DAYS == 30

\* database.py:87 and :259, the literal 86400
SECONDS_PER_DAY == 86400

\* database.py:256, the literal 3600
EXPIRE_INTERVAL == 3600

\* config.py:36 sets 500; the eviction policy is checked at a scaled cap
MAX_HISTORY_SIZE == 2

\* config.py:37 sets 50000; scaled
MAX_CONTENT_LENGTH == 3

\* config.py:38 sets 200; scaled
PREVIEW_LENGTH == 2

\* the ids the model lets AUTOINCREMENT hand out
MaxId == 4

\* how many times the clock may jump between operations
MaxTicks == 1

\* the largest limit and offset get_history is called with
MaxLimit == 2

MaxOffset == 1

\* config.py:39 sets 5 * 1024 * 1024; scaled
MAX_IMAGE_BYTES == 4

\* WM_CLIPBOARDUPDATE messages that may wait in the listener's queue
MaxQueue == 2

\* paste() calls of one run
MaxPastes == 2

NULL == <<>>

Some(v) == <<v>>

Min(S) == CHOOSE x \in S : \A y \in S : x <= y

Max(S) == CHOOSE x \in S : \A y \in S : y <= x

\* ------------------------------------------------------------------------
\* Text helpers of add_entry
\* ------------------------------------------------------------------------

Whitespace == {" ", "\n", "\t", "\r"}

\* str.strip()
Strip(s) ==
    LET keep == {i \in 1..Len(s) : s[i] \notin Whitespace}
    IN  IF keep = {} THEN <<>> ELSE SubSeq(s, Min(keep), Max(keep))

\* the blank test without the strip(): `not content`
IsBlank_NoStrip(s) == Len(s) = 0

\* `not content or not content.strip()`
IsBlank(s) == Len(s) = 0 \/ Len(Strip(s)) = 0

\* content[:n]
Prefix(s, n) == SubSeq(s, 1, IF Len(s) < n THEN Len(s) ELSE n)

\* .replace('\n', ' ')
FoldNewlines(s) == [i \in 1..Len(s) |-> IF s[i] = "\n" THEN " " ELSE s[i]]

\* the preview taken from the whole content, not its first PREVIEW_LENGTH
\* characters
TextPreview_Whole(content) == Strip(FoldNewlines(content))

\* content[:PREVIEW_LENGTH].replace('\n', ' ').strip()
TextPreview(content) == Strip(FoldNewlines(Prefix(content, PREVIEW_LENGTH)))

\* hashlib.sha256(image_data).hexdigest(): one digest per payload, no two
\* payloads of the model share a digest
Sha256Hex(image_data) == <<"sha256", image_data>>

\* the decimal digits
Digits == <<"0", "1", "2", "3", "4", "5", "6", "7", "8", "9">>

\* str(n) of a natural number
RECURSIVE Decimal(_)
Decimal(n) ==
    IF n < 10 THEN <<Digits[n + 1]>>
    ELSE Decimal(n \div 10) \o <<Digits[(n % 10) + 1]>>

\* f"Image ({size_kb} KB)" with size_kb = len(image_data) // 1024
ImagePreview(image_data) ==
    <<"I", "m", "a", "g", "e", " ", "(">>
        \o Decimal(Len(image_data) \div 1024)
        \o <<" ", "K", "B", ")">>

\* ------------------------------------------------------------------------
\* Inputs
\* ------------------------------------------------------------------------

TextInputs ==
    { <<>>, <<" ", "\n">>, <<"a">>, <<"b", "\n", "c", "d">> }

ImageInputs == { <<>>, <<1>> }

TickSteps ==
    { EXPIRE_INTERVAL,
      AUTO_EXPIRE_DAYS * SECONDS_PER_DAY - 1, AUTO_EXPIRE_DAYS * SECONDS_PER_DAY }

\* ------------------------------------------------------------------------
\* State
\* ------------------------------------------------------------------------

VARIABLES
    rows,               \* the table clipboard_history
    seq,                \* sqlite_sequence: the largest id ever assigned
    last_expire_time,   \* Database._last_expire_time
    closed,             \* Database._closed
    now,                \* the reading time.time() gives
    ticks,              \* clock jumps taken so far
    last,               \* the latest store call: operation, argument, result
    run,                \* inserts made back to back since any other call or
                        \* clock jump
    ignore_next,        \* ClipboardMonitor._ignore_next
    clip,               \* the OS clipboard: what each format holds
    queue,              \* WM_CLIPBOARDUPDATE messages posted to the listener,
                        \* each with the writer that caused it
    lpc,                \* where the listener thread is
    cur,                \* the writer behind the message being dispatched
    captured,           \* what _read_clipboard has read
    monitor,            \* ClipboardMonitor's _running, _ready, _thread_id, what
                        \* the thread's setup got, and where stop() is
    ppc,                \* where the UI thread is inside paste()
    pentry,             \* the entry _on_item_click hands to paste()
    calls,              \* paste() calls made so far
    wrote,              \* the calls whose clipboard write succeeded
    started,            \* the calls that started their background thread
    pressed,            \* the calls whose thread has sent Ctrl+V
    newest,             \* what the entry inserted last is compared by (its type
                        \* with its text or image hash), followed where the
                        \* editing calls are studied
    listed,             \* the latest get_history call: its arguments and the
                        \* list it returned
    file,               \* the condition of the file at db_path
    lock,               \* Database.lock: the thread inside `with self.lock`
    thread,             \* each thread's call on the store and where it is
    opened,             \* who has the system's clipboard open
    attempt,            \* OpenClipboard calls that failed in the last retry loop
    tasks,              \* the threads paste() started, each in _focus_and_press
    windows,            \* the window handles that are valid
    sent,               \* the key events SendInput has synthesized
    hotkey              \* the HotkeyManager, its thread and that thread's queue

storeVars ==
    <<rows, seq, last_expire_time, closed, now, ticks, last, run, newest,
      listed, file, lock, thread>>

threadVars == <<lock, thread>>

handleVars == <<opened, attempt>>

inputVars == <<tasks, windows, sent>>

hotkeyVars == <<hotkey>>

listenerVars == <<lpc, cur, captured, monitor>>

pasteVars == <<ppc, pentry, calls, wrote, started, pressed>>

clipVars == <<ignore_next, clip, queue>>

vars ==
    <<rows, seq, last_expire_time, closed, now, ticks, last, run,
      ignore_next, clip, queue, lpc, cur, captured, monitor,
      ppc, pentry, calls, wrote, started, pressed, newest, listed, file,
      lock, thread, opened, attempt, tasks, windows, sent, hotkey>>

\* ------------------------------------------------------------------------
\* The store
\* ------------------------------------------------------------------------

\* the id of a table declared without AUTOINCREMENT: one more than the
\* largest id in the table
NextId_Rowid(rs, s) ==
    IF rs = {} THEN 1 ELSE (CHOOSE r \in rs : \A q \in rs : q.id <= r.id).id + 1

\* id INTEGER PRIMARY KEY AUTOINCREMENT: one more than the largest id the
\* table ever held, which sqlite_sequence keeps
NextId(rs, s) == s + 1

\* INSERT INTO clipboard_history (...): pinned takes its DEFAULT 0
NewRow(id, content, content_type, timestamp, preview, image_data, image_hash) ==
    [ id |-> id, content |-> content, content_type |-> content_type,
      timestamp |-> timestamp, pinned |-> FALSE, preview |-> preview,
      image_data |-> image_data, image_hash |-> image_hash ]

\* the dedup query with its order reversed: ORDER BY timestamp ASC LIMIT 1
LatestRow_Oldest(rs) == CHOOSE r \in rs : \A q \in rs : q.timestamp >= r.timestamp

\* SELECT ... ORDER BY timestamp DESC LIMIT 1 (on a table that is not empty)
LatestRow(rs) == CHOOSE r \in rs : \A q \in rs : q.timestamp <= r.timestamp

\* the eviction order reversed: ORDER BY timestamp DESC
OldestUnpinned_Newest(rs, k) ==
    LET unpinned == {r \in rs : ~r.pinned}
    IN  {r \in unpinned :
            Cardinality({q \in unpinned : q.timestamp > r.timestamp}) < k}

\* SELECT id ... WHERE pinned = 0 ORDER BY timestamp ASC LIMIT k
OldestUnpinned(rs, k) ==
    LET unpinned == {r \in rs : ~r.pinned}
    IN  {r \in unpinned :
            Cardinality({q \in unpinned : q.timestamp < r.timestamp}) < k}

\* the expiration without its `pinned = 0`
DeleteExpired_Pinned(rs, t) ==
    LET cutoff == t - AUTO_EXPIRE_DAYS * SECONDS_PER_DAY
    IN  {r \in rs : ~(r.timestamp < cutoff)}

\* DELETE ... WHERE pinned = 0 AND timestamp < cutoff
DeleteExpired(rs, t) ==
    LET cutoff == t - AUTO_EXPIRE_DAYS * SECONDS_PER_DAY
    IN  {r \in rs : ~(~r.pinned /\ r.timestamp < cutoff)}

\* the cleanup counting the unpinned rows only against the cap
_cleanup_unlocked_Unpinned(rs) ==
    LET unpinned == Cardinality({r \in rs : ~r.pinned})
    IN  IF unpinned > MAX_HISTORY_SIZE
        THEN rs \ OldestUnpinned(rs, unpinned - MAX_HISTORY_SIZE)
        ELSE rs

_cleanup_unlocked(rs) ==
    LET count == Cardinality(rs)
    IN  IF count > MAX_HISTORY_SIZE
        THEN LET unpinned == Cardinality({r \in rs : ~r.pinned})
             IN  IF unpinned = 0
                 THEN rs
                 ELSE LET excess == count - MAX_HISTORY_SIZE
                          to_delete == IF excess < unpinned THEN excess ELSE unpinned
                      IN  rs \ OldestUnpinned(rs, to_delete)
        ELSE rs

\* the pass without its once-an-hour throttle
_maybe_expire_unlocked_Always(rs, last_time, t) ==
    [rows |-> DeleteExpired(rs, t), last_expire_time |-> t]

\* the table and _last_expire_time after the throttled pass
_maybe_expire_unlocked(rs, last_time, t) ==
    IF t - last_time < EXPIRE_INTERVAL
    THEN [rows |-> rs, last_expire_time |-> last_time]
    ELSE [rows |-> DeleteExpired(rs, t), last_expire_time |-> t]

\* no entry inserted yet
NoKey == <<"none", <<>>>>

\* what `last` holds after a call that is no add
OtherCall == [op |-> "other", arg |-> <<>>, ret |-> FALSE, id |-> 0]

\* a call that returns without touching the table
Rejected(op, arg) ==
    /\ last' = [op |-> op, arg |-> arg, ret |-> FALSE, id |-> 0]
    /\ run' = 0
    /\ UNCHANGED <<rows, seq, last_expire_time, closed, now, ticks>>

\* INSERT, commit, _cleanup_unlocked(), _maybe_expire_unlocked(), return True
Inserted(op, arg, row) ==
    LET cleaned == _cleanup_unlocked(rows \cup {row})
        expired == _maybe_expire_unlocked(cleaned, last_expire_time, now)
    IN  /\ rows' = expired.rows
        /\ last_expire_time' = expired.last_expire_time
        /\ seq' = row.id
        /\ now' = now + 1
        /\ last' = [op |-> op, arg |-> arg, ret |-> TRUE, id |-> row.id]
        /\ run' = run + 1
        /\ UNCHANGED <<closed, ticks>>

\* the image insert without its image_hash column
_add_image_entry_NoHash(image_data) ==
    IF Len(image_data) = 0
    THEN Rejected("add_image", image_data)
    ELSE IF closed
    THEN Rejected("add_image", image_data)
    ELSE IF rows # {} /\ LatestRow(rows).image_hash = Some(Sha256Hex(image_data))
    THEN Rejected("add_image", image_data)
    ELSE Inserted("add_image", image_data,
                  NewRow(NextId(rows, seq), <<>>, "image", now, ImagePreview(image_data),
                         Some(image_data), NULL))

_add_image_entry(image_data) ==
    IF Len(image_data) = 0
    THEN Rejected("add_image", image_data)
    ELSE LET img_hash == Sha256Hex(image_data)
         IN  IF closed
             THEN Rejected("add_image", image_data)
             ELSE IF rows # {} /\ LatestRow(rows).image_hash = Some(img_hash)
                  THEN Rejected("add_image", image_data)
                  ELSE Inserted("add_image", image_data,
                                NewRow(NextId(rows, seq), <<>>, "image", now,
                                       ImagePreview(image_data),
                                       Some(image_data), Some(img_hash)))

\* the add with its text compared with every row, not the latest one
add_entry_AnyRow(content, content_type, image_data) ==
    IF closed
    THEN Rejected(IF content_type = "image" THEN "add_image" ELSE "add_text",
                  IF content_type = "image" THEN image_data ELSE content)
    ELSE IF content_type = "image"
    THEN _add_image_entry(image_data)
    ELSE IF IsBlank(content)
    THEN Rejected("add_text", content)
    ELSE LET stored == Prefix(content, MAX_CONTENT_LENGTH)
             preview == TextPreview(stored)
         IN  IF \E r \in rows : r.content_type = "text" /\ r.content = stored
             THEN Rejected("add_text", content)
             ELSE Inserted("add_text", content,
                           NewRow(NextId(rows, seq), stored, content_type, now, preview,
                                  NULL, NULL))

add_entry(content, content_type, image_data) ==
    IF closed
    THEN Rejected(IF content_type = "image" THEN "add_image" ELSE "add_text",
                  IF content_type = "image" THEN image_data ELSE content)
    ELSE IF content_type = "image"
    THEN _add_image_entry(image_data)
    ELSE IF IsBlank(content)
    THEN Rejected("add_text", content)
    ELSE LET stored == Prefix(content, MAX_CONTENT_LENGTH)
             preview == TextPreview(stored)
         IN  IF /\ rows # {}
                /\ LatestRow(rows).content_type = "text"
                /\ LatestRow(rows).content = stored
             THEN Rejected("add_text", content)
             ELSE Inserted("add_text", content,
                           NewRow(NextId(rows, seq), stored, content_type, now, preview,
                                  NULL, NULL))

\* SELECT * FROM clipboard_history WHERE id = ?  (NULL: not found)
get_entry(rs, entry_id) ==
    IF \E r \in rs : r.id = entry_id
    THEN Some(CHOOSE r \in rs : r.id = entry_id)
    ELSE NULL

\* ------------------------------------------------------------------------
\* get_history
\* ------------------------------------------------------------------------

UpperCase ==
    <<"A", "B", "C", "D", "E", "F", "G", "H", "I", "J", "K", "L", "M",
      "N", "O", "P", "Q", "R", "S", "T", "U", "V", "W", "X", "Y", "Z">>

LowerCase ==
    <<"a", "b", "c", "d", "e", "f", "g", "h", "i", "j", "k", "l", "m",
      "n", "o", "p", "q", "r", "s", "t", "u", "v", "w", "x", "y", "z">>

\* how LIKE compares two characters: ASCII letters without regard to case
\* (no PRAGMA case_sensitive_like is issued)
LowerOf ==
    [c \in {UpperCase[i] : i \in 1..Len(UpperCase)} |->
        LowerCase[CHOOSE i \in 1..Len(UpperCase) : UpperCase[i] = c]]

FoldCase(c) == IF c \in DOMAIN LowerOf THEN LowerOf[c] ELSE c

\* the query put into the pattern as it is
EscapeLike_None(q) == q

\* search_query.replace("\\", "\\\\").replace("%", "\\%").replace("_", "\\_")
RECURSIVE EscapeLike(_)
EscapeLike(q) ==
    IF Len(q) = 0 THEN <<>>
    ELSE (IF q[1] \in {"\\", "%", "_"} THEN <<"\\", q[1]>> ELSE <<q[1]>>)
            \o EscapeLike(Tail(q))

\* text LIKE pattern ESCAPE '\': % any run of characters, _ any one
\* character, the character after the escape character itself
RECURSIVE Like(_, _)
Like(pattern, text) ==
    IF Len(pattern) = 0 THEN Len(text) = 0
    ELSE IF pattern[1] = "%"
    THEN Like(Tail(pattern), text) \/ (Len(text) > 0 /\ Like(pattern, Tail(text)))
    ELSE IF pattern[1] = "_"
    THEN Len(text) > 0 /\ Like(Tail(pattern), Tail(text))
    ELSE IF pattern[1] = "\\"
    THEN /\ Len(pattern) > 1
         /\ Len(text) > 0
         /\ FoldCase(pattern[2]) = FoldCase(text[1])
         /\ Like(Tail(Tail(pattern)), Tail(text))
    ELSE /\ Len(text) > 0
         /\ FoldCase(pattern[1]) = FoldCase(text[1])
         /\ Like(Tail(pattern), Tail(text))

\* the WHERE clause of the search
Matches(r, search_query) ==
    LET pattern == <<"%">> \o EscapeLike(search_query) \o <<"%">>
    IN  \/ Like(pattern, r.content)
        \/ (r.content_type = "image" /\ Like(pattern, r.preview))

\* the order without its first key: ORDER BY timestamp DESC
ComesBefore_TimeOnly(r, q) == r.timestamp > q.timestamp

\* ORDER BY pinned DESC, timestamp DESC
ComesBefore(r, q) ==
    \/ r.pinned /\ ~q.pinned
    \/ r.pinned = q.pinned /\ r.timestamp > q.timestamp

RECURSIVE OrderBy(_)
OrderBy(rs) ==
    IF rs = {} THEN <<>>
    ELSE LET first == CHOOSE r \in rs : \A q \in rs \ {r} : ComesBefore(r, q)
         IN  <<first>> \o OrderBy(rs \ {first})

\* LIMIT ? OFFSET ?: a negative limit is no limit, a negative offset is 0
LimitOffset(s, limit, offset) ==
    LET from == IF offset < 0 THEN 0 ELSE offset
        to == IF limit < 0 \/ from + limit > Len(s) THEN Len(s) ELSE from + limit
    IN  SubSeq(s, from + 1, to)

\* SELECT id, LENGTH(content) as content_len, content_type, timestamp,
\* pinned, preview, image_hash
Summary(r) ==
    [ id |-> r.id, content_len |-> Len(r.content),
      content_type |-> r.content_type, timestamp |-> r.timestamp,
      pinned |-> r.pinned, preview |-> r.preview, image_hash |-> r.image_hash ]

\* the list get_history returns; a search_query of None or "" is no search
get_history(rs, is_closed, limit, offset, search_query) ==
    IF is_closed THEN <<>>
    ELSE LET selected == IF Len(search_query) > 0
                         THEN {r \in rs : Matches(r, search_query)}
                         ELSE rs
             page == LimitOffset(OrderBy(selected), limit, offset)
         IN  [i \in 1..Len(page) |-> Summary(page[i])]

\* no get_history call made yet
NoList ==
    [made |-> FALSE, limit |-> 0, offset |-> 0, search_query |-> <<>>, ret |-> <<>>]

\* a get_history call: a read, the table stays as it is
list_history(limit, offset, search_query) ==
    /\ listed' = [ made |-> TRUE, limit |-> limit, offset |-> offset,
                   search_query |-> search_query,
                   ret |-> get_history(rows, closed, limit, offset, search_query) ]
    /\ UNCHANGED <<rows, seq, last_expire_time, closed, now, ticks, last, run,
                   newest, file>>
    /\ UNCHANGED <<listenerVars, pasteVars, clipVars, threadVars, handleVars, inputVars, hotkeyVars>>

\* the delete with `WHERE id <= ?`
delete_entry_UpTo(entry_id) ==
    /\ rows' = IF closed THEN rows ELSE {r \in rows : r.id > entry_id}
    /\ last' = OtherCall
    /\ run' = 0
    /\ UNCHANGED <<seq, last_expire_time, closed, now, ticks>>

delete_entry(entry_id) ==
    /\ rows' = IF closed THEN rows ELSE {r \in rows : r.id # entry_id}
    /\ last' = OtherCall
    /\ run' = 0
    /\ UNCHANGED <<seq, last_expire_time, closed, now, ticks>>

\* the update setting the flag: SET pinned = 1 WHERE id = ?
SetPinned_Always(rs, entry_id) ==
    {IF r.id = entry_id THEN [r EXCEPT !.pinned = TRUE] ELSE r : r \in rs}

\* UPDATE ... SET pinned = CASE WHEN pinned = 1 THEN 0 ELSE 1 END WHERE id = ?
SetPinned(rs, entry_id) ==
    {IF r.id = entry_id THEN [r EXCEPT !.pinned = ~r.pinned] ELSE r : r \in rs}

toggle_pin(entry_id) ==
    /\ rows' = IF closed THEN rows ELSE SetPinned(rows, entry_id)
    /\ last' = OtherCall
    /\ run' = 0
    /\ UNCHANGED <<seq, last_expire_time, closed, now, ticks>>

\* clear_all without its `WHERE pinned = 0`
clear_all_Pinned ==
    /\ rows' = IF closed THEN rows ELSE {}
    /\ last' = OtherCall
    /\ run' = 0
    /\ UNCHANGED <<seq, last_expire_time, closed, now, ticks>>

clear_all ==
    /\ rows' = IF closed THEN rows ELSE {r \in rows : r.pinned}
    /\ last' = OtherCall
    /\ run' = 0
    /\ UNCHANGED <<seq, last_expire_time, closed, now, ticks>>

close ==
    /\ closed' = TRUE
    /\ last' = OtherCall
    /\ run' = 0
    /\ UNCHANGED <<rows, seq, last_expire_time, now, ticks>>

\* Database.__init__ on the file a closed store left behind: the table and
\* sqlite_sequence are the file's, _expire_old_entries() runs unthrottled and
\* _last_expire_time is set to time.time()
reopen ==
    /\ closed
    /\ closed' = FALSE
    /\ rows' = DeleteExpired(rows, now)
    /\ last_expire_time' = now
    /\ last' = OtherCall
    /\ run' = 0
    /\ UNCHANGED <<seq, now, ticks>>

\* the wall clock moves on between two calls
Tick(d) ==
    /\ ticks < MaxTicks
    /\ now' = now + d
    /\ ticks' = ticks + 1
    /\ run' = 0
    /\ UNCHANGED <<rows, seq, last_expire_time, closed, last>>

\* ------------------------------------------------------------------------
\* The store driven through its public contract
\* ------------------------------------------------------------------------

\* the threads that call the store: the listener's, which only adds what it
\* captured, and the window's, which makes every call
Threads == {"listener", "caller"}

\* a thread that has made no call yet. `fresh` and `peer` are set when an
\* add comes to the lock: the latest entry was not its content when it was
\* called, and the other thread was inside an add of the same content
IdleThread ==
    [pc |-> "idle", op |-> "none", arg |-> <<>>, id |-> 0, ret |-> "none",
     seen |-> 0, fresh |-> FALSE, peer |-> FALSE]

\* Database.__init__ on a fresh file: empty table, the opening expiration
\* pass done, _last_expire_time = time.time()
InitStore ==
    /\ rows = {}
    /\ seq = 0
    /\ now = 0
    /\ last_expire_time = 0
    /\ closed = FALSE
    /\ ticks = 0
    /\ last = OtherCall
    /\ run = 0
    /\ newest = NoKey
    /\ listed = NoList
    /\ file = "ok"
    /\ lock = "free"
    /\ thread = [th \in Threads |-> IdleThread]

\* ------------------------------------------------------------------------
\* The clipboard, the listener thread and the paste engine
\* ------------------------------------------------------------------------

\* a clipboard holding no format; owner is who wrote it last
EmptyClip(owner) ==
    [text |-> NULL, files |-> NULL, dib |-> NULL, owner |-> owner]

\* what SetClipboardText leaves after EmptyClipboard
TextClip(owner, t) ==
    [text |-> Some(t), files |-> NULL, dib |-> NULL, owner |-> owner]

\* what SetClipboardData(CF_DIB, ...) leaves after EmptyClipboard
DibClip(owner, dib) ==
    [text |-> NULL, files |-> NULL, dib |-> Some(dib), owner |-> owner]

\* nothing read; owner is whose write the read saw
NoCapture ==
    [text_content |-> NULL, file_list |-> NULL, raw_dib |-> NULL, owner |-> "none",
     bmp_header |-> NULL]

NoEntry == [content |-> <<>>, content_type |-> "none", image_data |-> NULL]

\* the header fields _dib_to_png reads, as a BMP written by Image.save has
\* them: BITMAPINFOHEADER, 24 bits a pixel, BI_RGB, no palette
PlainHeader ==
    [bi_size |-> 40, bit_count |-> 24, compression |-> 0, clr_used |-> 0]

\* Image.open(png).save(BMP) and bmp_data[14:]: a bitmap of the same
\* pixels; a stored payload is named by the pixels it encodes, and len is the
\* bitmap's length in the unit MAX_IMAGE_BYTES counts. header is None when
\* the data ends before the fields that are read from it
PngToDib(png_bytes) ==
    [len |-> Len(png_bytes), pixels |-> png_bytes, decodable |-> TRUE,
     header |-> Some(PlainHeader)]

\* the width of a DWORD in bits (32 in the program)
DwordBits == 16

DwordLimit == 2 ^ DwordBits

\* the offset counting the mask bytes whatever the header's size
bf_off_bits_AnyHeader(h) ==
    LET clr_used == IF h.clr_used = 0 /\ h.bit_count <= 8
                    THEN 2 ^ h.bit_count ELSE h.clr_used
        masks_size == IF h.compression \in {3, 6}
                      THEN IF h.compression = 3 THEN 12 ELSE 16
                      ELSE 0
    IN  14 + h.bi_size + masks_size + clr_used * 4

\* bf_off_bits from bi_size, bit_count, clr_used and compression
bf_off_bits(h) ==
    LET clr_used == IF h.clr_used = 0 /\ h.bit_count <= 8
                    THEN 2 ^ h.bit_count ELSE h.clr_used
        masks_size == IF h.compression \in {3, 6} /\ h.bi_size = 40
                      THEN IF h.compression = 3 THEN 12 ELSE 16
                      ELSE 0
    IN  14 + h.bi_size + masks_size + clr_used * 4

\* int.to_bytes(4, 'little'): the value, or OverflowError when it does not
\* fit in four bytes
to_bytes(n) == IF n < DwordLimit THEN Some(n) ELSE NULL

\* the 14 bytes put before the DIB: 'BM', the file's length, four zero
\* bytes, the offset of the pixels; None when struct.unpack_from or to_bytes
\* raises
bmp_header(dib_data) ==
    IF dib_data.header = NULL
    THEN NULL
    ELSE LET bf_size == to_bytes(dib_data.len + 14)
             off_bits == to_bytes(bf_off_bits(dib_data.header[1]))
         IN  IF bf_size = NULL \/ off_bits = NULL
             THEN NULL
             ELSE Some([ bfType |-> "BM", bfSize |-> bf_size[1],
                         bfReserved |-> 0, bfOffBits |-> off_bits[1] ])

\* the BMP file built from the DIB, decoded and saved as PNG; None when
\* anything on the way raises
_dib_to_png(dib_data) ==
    IF bmp_header(dib_data) = NULL
    THEN NULL
    ELSE IF dib_data.decodable THEN Some(dib_data.pixels) ELSE NULL

\* the formats read with the size test `<` in place of `<=`
ReadFormats_Under(c) ==
    LET text_content ==
            IF c.text # NULL /\ ~IsBlank(c.text[1]) THEN c.text ELSE NULL
        file_list ==
            IF text_content = NULL THEN c.files ELSE NULL
        raw_dib ==
            IF /\ text_content = NULL
               /\ file_list = NULL
               /\ c.dib # NULL
               /\ c.dib[1].len > 0
               /\ c.dib[1].len < MAX_IMAGE_BYTES
            THEN c.dib ELSE NULL
    IN  [ text_content |-> text_content, file_list |-> file_list,
          raw_dib |-> raw_dib, owner |-> c.owner, bmp_header |-> NULL ]

\* the formats _read_clipboard takes, in its order of preference
ReadFormats(c) ==
    LET text_content ==
            IF c.text # NULL /\ ~IsBlank(c.text[1]) THEN c.text ELSE NULL
        file_list ==
            IF text_content = NULL THEN c.files ELSE NULL
        raw_dib ==
            IF /\ text_content = NULL
               /\ file_list = NULL
               /\ c.dib # NULL
               /\ c.dib[1].len > 0
               /\ c.dib[1].len <= MAX_IMAGE_BYTES
            THEN c.dib ELSE NULL
    IN  [ text_content |-> text_content, file_list |-> file_list,
          raw_dib |-> raw_dib, owner |-> c.owner, bmp_header |-> NULL ]

\* "\n".join(file_list)
RECURSIVE JoinLines(_)
JoinLines(paths) ==
    IF Len(paths) = 0 THEN <<>>
    ELSE IF Len(paths) = 1 THEN paths[1]
    ELSE paths[1] \o <<"\n">> \o JoinLines(Tail(paths))

\* the callback the listener was built with: the entry goes to the store
on_new_content(content, content_type) ==
    /\ seq < MaxId
    /\ IF content_type = "image"
       THEN add_entry(<<>>, "image", content)
       ELSE add_entry(content, "text", NULL)

\* ClipboardMonitor.__init__: _running set, _ready clear, no thread id, no
\* callback reference; the other fields: registered is whether the window
\* class is registered, window whether the window exists, listening whether
\* it is on the system's list of clipboard format listeners, failed is the
\* setup call that returned a failure, stop_pc is where a stop() call is,
\* posted is what its PostThreadMessageW came to
NewMonitor ==
    [ running |-> TRUE, ready |-> FALSE, thread_id |-> NULL,
      wndproc_ref |-> FALSE, registered |-> FALSE, window |-> FALSE,
      listening |-> FALSE, failed |-> "none",
      stop_pc |-> "idle", posted |-> "none" ]

\* the monitor once _run has entered its message loop with every setup call
\* successful
LoopingMonitor ==
    [ NewMonitor EXCEPT !.ready = TRUE, !.thread_id = Some(1),
                        !.wndproc_ref = TRUE, !.registered = TRUE,
                        !.window = TRUE, !.listening = TRUE ]

\* `while self._running.is_set()`: back into GetMessageW, or out of the loop
LoopCheck == IF monitor.running THEN "wait" ELSE "cleanup"

\* another application writes the clipboard; the system posts
\* WM_CLIPBOARDUPDATE to the windows registered as format listeners
external_copy(c) ==
    /\ Len(queue) < MaxQueue
    /\ clip' = c
    /\ queue' = IF monitor.listening THEN Append(queue, "ext") ELSE queue
    /\ UNCHANGED <<storeVars, listenerVars, pasteVars, ignore_next, handleVars, inputVars, hotkeyVars>>

\* GetMessageW returns the next message: 0 for WM_QUIT, which breaks the
\* loop; else DispatchMessageW enters _wnd_proc
get_message ==
    /\ lpc = "wait"
    /\ queue # <<>>
    /\ queue' = Tail(queue)
    /\ IF Head(queue) = "quit"
       THEN lpc' = "cleanup" /\ UNCHANGED cur
       ELSE lpc' = "wnd_proc" /\ cur' = Head(queue)
    /\ UNCHANGED <<storeVars, pasteVars, captured, monitor, ignore_next, clip, handleVars, inputVars, hotkeyVars>>

\* _wnd_proc dropping the message on a set flag without clearing the flag
wnd_proc_KeepsFlag ==
    /\ lpc = "wnd_proc"
    /\ IF ignore_next
       THEN /\ lpc' = LoopCheck
            /\ cur' = "none"
       ELSE /\ lpc' = "read"
            /\ UNCHANGED cur
    /\ UNCHANGED <<storeVars, pasteVars, captured, monitor, clipVars, handleVars, inputVars, hotkeyVars>>

\* _wnd_proc: under _ignore_lock, a set flag is cleared and the message
\* dropped; else on to _read_clipboard
wnd_proc ==
    /\ lpc = "wnd_proc"
    /\ IF ignore_next
       THEN /\ ignore_next' = FALSE
            /\ lpc' = LoopCheck
            /\ cur' = "none"
       ELSE /\ lpc' = "read"
            /\ UNCHANGED <<ignore_next, cur>>
    /\ UNCHANGED <<storeVars, pasteVars, captured, monitor, clip, queue, handleVars, inputVars, hotkeyVars>>

\* _read_clipboard up to CloseClipboard: the formats are read while the
\* clipboard is open
read_clipboard ==
    /\ lpc = "read"
    /\ captured' = ReadFormats(clip)
    /\ lpc' = "forward"
    /\ UNCHANGED <<storeVars, pasteVars, clipVars, cur, monitor, handleVars, inputVars, hotkeyVars>>

\* a failed read without the `except Exception` around it: the exception
\* leaves _run and the thread ends
read_clipboard_fails_Fatal ==
    /\ lpc = "read"
    /\ lpc' = "Stopped"
    /\ cur' = "none"
    /\ UNCHANGED <<storeVars, pasteVars, clipVars, captured, monitor, handleVars, inputVars, hotkeyVars>>

\* OpenClipboard failed three times, or reading raised: nothing is captured
read_clipboard_fails ==
    /\ lpc = "read"
    /\ lpc' = LoopCheck
    /\ cur' = "none"
    /\ UNCHANGED <<storeVars, pasteVars, clipVars, captured, monitor, handleVars, inputVars, hotkeyVars>>

\* _read_clipboard after CloseClipboard: at most one entry goes to the store
forward ==
    /\ lpc = "forward"
    /\ lpc' = LoopCheck
    /\ cur' = "none"
    /\ captured' = NoCapture
    /\ IF captured.text_content # NULL
       THEN on_new_content(captured.text_content[1], "text")
       ELSE IF captured.file_list # NULL /\ Len(captured.file_list[1]) > 0
       THEN IF ~IsBlank(JoinLines(captured.file_list[1]))
            THEN on_new_content(JoinLines(captured.file_list[1]), "text")
            ELSE UNCHANGED storeVars
       ELSE IF captured.raw_dib # NULL /\ _dib_to_png(captured.raw_dib[1]) # NULL
       THEN on_new_content(_dib_to_png(captured.raw_dib[1])[1], "image")
       ELSE UNCHANGED storeVars
    /\ UNCHANGED <<pasteVars, clipVars, monitor, newest, listed, file, threadVars, handleVars, inputVars, hotkeyVars>>

\* PopupWindow._on_item_click: the entry is read from the store and handed
\* to paste()
_on_item_click(entry_id) ==
    /\ ppc = "idle"
    /\ calls < MaxPastes
    /\ ~closed
    /\ get_entry(rows, entry_id) # NULL
    /\ LET entry == get_entry(rows, entry_id)[1]
       IN  pentry' = [ content |-> entry.content,
                       content_type |-> entry.content_type,
                       image_data |-> IF entry.content_type = "image"
                                      THEN entry.image_data ELSE NULL ]
    /\ calls' = calls + 1
    /\ ppc' = "set_ignore"
    /\ UNCHANGED <<storeVars, listenerVars, clipVars, wrote, started, pressed, handleVars, inputVars, hotkeyVars>>

\* paste() going to its clipboard write without set_ignore_next()
paste_set_ignore_Skip ==
    /\ ppc = "set_ignore"
    /\ ppc' = "write"
    /\ UNCHANGED <<storeVars, listenerVars, clipVars,
                   pentry, calls, wrote, started, pressed, handleVars, inputVars, hotkeyVars>>

\* paste(): monitor.set_ignore_next()
paste_set_ignore ==
    /\ ppc = "set_ignore"
    /\ ignore_next' = TRUE
    /\ ppc' = "write"
    /\ UNCHANGED <<storeVars, listenerVars, clip, queue,
                   pentry, calls, wrote, started, pressed, handleVars, inputVars, hotkeyVars>>

\* what paste() puts on the clipboard for the entry
PasteClip(entry) ==
    IF entry.content_type = "image" /\ entry.image_data # NULL
    THEN DibClip("paste", PngToDib(entry.image_data[1]))
    ELSE TextClip("paste", entry.content)

\* _set_clipboard_text / _set_clipboard_image return True
paste_write ==
    /\ ppc = "write"
    /\ Len(queue) < MaxQueue
    /\ clip' = PasteClip(pentry)
    /\ queue' = Append(queue, "paste")
    /\ wrote' = wrote \cup {calls}
    /\ ppc' = "written"
    /\ UNCHANGED <<storeVars, listenerVars, ignore_next,
                   pentry, calls, started, pressed, handleVars, inputVars, hotkeyVars>>

\* the write returns False with the clipboard untouched: it could not be
\* opened, or the image could not be converted
paste_write_fails ==
    /\ ppc = "write"
    /\ ppc' = "failed"
    /\ UNCHANGED <<storeVars, listenerVars, clipVars,
                   pentry, calls, wrote, started, pressed, handleVars, inputVars, hotkeyVars>>

\* the write returns False after EmptyClipboard: setting the data raised and
\* the clipboard was closed empty
paste_write_empties ==
    /\ ppc = "write"
    /\ Len(queue) < MaxQueue
    /\ clip' = EmptyClip("paste")
    /\ queue' = Append(queue, "emptied")
    /\ ppc' = "failed"
    /\ UNCHANGED <<storeVars, listenerVars, ignore_next,
                   pentry, calls, wrote, started, pressed, handleVars, inputVars, hotkeyVars>>

\* paste() after the write, with the thread started whatever the write
\* returned and the flag left as it is
paste_return_Always ==
    /\ ppc \in {"written", "failed"}
    /\ started' = started \cup {calls}
    /\ ppc' = "idle"
    /\ pentry' = NoEntry
    /\ UNCHANGED <<storeVars, listenerVars, clipVars, calls, wrote, pressed, handleVars, inputVars, hotkeyVars>>

\* paste() after the write: on failure clear_ignore() and return, on success
\* the thread running _focus_and_press is started
paste_return ==
    /\ ppc \in {"written", "failed"}
    /\ IF ppc = "failed"
       THEN /\ ignore_next' = FALSE
            /\ UNCHANGED started
       ELSE /\ started' = started \cup {calls}
            /\ UNCHANGED ignore_next
    /\ ppc' = "idle"
    /\ pentry' = NoEntry
    /\ UNCHANGED <<storeVars, listenerVars, clip, queue, calls, wrote, pressed, handleVars, inputVars, hotkeyVars>>

\* _focus_and_press on its thread: SendInput of Ctrl+V
_focus_and_press(c) ==
    /\ c \in started \ pressed
    /\ pressed' = pressed \cup {c}
    /\ UNCHANGED <<storeVars, listenerVars, clipVars,
                   ppc, pentry, calls, wrote, started, handleVars, inputVars, hotkeyVars>>

\* the windows that can be in the foreground when the popup opens
TargetWindows == {1}

\* HotkeyManager.__init__: no thread, no thread id, _ready clear, registered
\* False; with it what the model keeps of the thread: its position, its
\* message queue, whether the system holds the registration, the presses and
\* on_activate calls so far, and how far a stop() call has come
NewHotkey ==
    [ pc |-> "Uninitialized", thread_id |-> NULL, ready |-> FALSE,
      registered |-> FALSE, held |-> FALSE, queue |-> <<>>,
      presses |-> 0, activated |-> 0, stop_pc |-> "idle", posted |-> "none" ]

\* the store opened on a fresh file, the listener in its message loop, the
\* clipboard empty, no paste under way
Init ==
    /\ InitStore
    /\ ignore_next = FALSE
    /\ clip = EmptyClip("none")
    /\ queue = <<>>
    /\ lpc = "wait"
    /\ cur = "none"
    /\ captured = NoCapture
    /\ monitor = LoopingMonitor
    /\ ppc = "idle"
    /\ pentry = NoEntry
    /\ calls = 0
    /\ wrote = {}
    /\ started = {}
    /\ pressed = {}
    /\ opened = "none"
    /\ attempt = [listener |-> 0, paste |-> 0]
    /\ tasks = <<>>
    /\ windows = TargetWindows
    /\ sent = <<>>
    /\ hotkey = NewHotkey

othersIdle ==
    UNCHANGED <<listenerVars, pasteVars, clipVars, newest, listed, file, threadVars, handleVars, inputVars, hotkeyVars>>

add_text(t) == seq < MaxId /\ add_entry(t, "text", NULL) /\ othersIdle

add_image(b) == seq < MaxId /\ add_entry(<<>>, "image", b) /\ othersIdle

Next ==
    \/ \E t \in TextInputs : add_text(t)
    \/ \E b \in ImageInputs : add_image(b)
    \/ \E id \in 1..MaxId : delete_entry(id) /\ othersIdle
    \/ \E id \in 1..MaxId : toggle_pin(id) /\ othersIdle
    \/ clear_all /\ othersIdle
    \/ \E d \in TickSteps : Tick(d) /\ othersIdle

Spec == Init /\ [][Next]_vars

\* ------------------------------------------------------------------------
\* The store across close() and the next start of the application
\* ------------------------------------------------------------------------

LifeTexts == { <<"a">>, <<"b", "\n", "c", "d">> }

NextLife ==
    \/ \E t \in LifeTexts : add_text(t)
    \/ \E id \in 1..MaxId : toggle_pin(id) /\ othersIdle
    \/ close /\ othersIdle
    \/ reopen /\ othersIdle
    \/ \E d \in TickSteps : Tick(d) /\ othersIdle

SpecLife == Init /\ [][NextLife]_vars

\* ------------------------------------------------------------------------
\* The store filled past its cap with pairwise different texts
\* ------------------------------------------------------------------------

FillTexts == { <<"a">>, <<"c">>, <<"b", "\n", "c", "d">> }

NextFill ==
    \/ \E t \in FillTexts : add_text(t)
    \/ \E id \in 1..MaxId : toggle_pin(id) /\ othersIdle
    \/ \E d \in TickSteps : Tick(d) /\ othersIdle

SpecFill == Init /\ [][NextFill]_vars

\* ------------------------------------------------------------------------
\* The editing calls: adds between deletes, pins and clears
\* ------------------------------------------------------------------------

\* `newest` follows the add just made: the key of the row it inserted
Watch(key) == newest' = IF last'.ret THEN key ELSE newest

watched_add_text(t) ==
    /\ seq < MaxId
    /\ add_entry(t, "text", NULL)
    /\ Watch(<<"text", Prefix(t, MAX_CONTENT_LENGTH)>>)
    /\ UNCHANGED <<listenerVars, pasteVars, clipVars, listed, file, threadVars, handleVars, inputVars, hotkeyVars>>

watched_add_image(b) ==
    /\ seq < MaxId
    /\ add_entry(<<>>, "image", b)
    /\ Watch(<<"image", Sha256Hex(b)>>)
    /\ UNCHANGED <<listenerVars, pasteVars, clipVars, listed, file, threadVars, handleVars, inputVars, hotkeyVars>>

EditImages == { <<1>> }

NextEdit ==
    \/ \E t \in LifeTexts : watched_add_text(t)
    \/ \E b \in EditImages : watched_add_image(b)
    \/ \E id \in 1..MaxId : delete_entry(id) /\ othersIdle
    \/ \E id \in 1..MaxId : toggle_pin(id) /\ othersIdle
    \/ clear_all /\ othersIdle

SpecEdit == Init /\ [][NextEdit]_vars

\* ------------------------------------------------------------------------
\* Searching the history
\* ------------------------------------------------------------------------

\* the limit PopupWindow._load_items asks for
LOAD_LIMIT == 30

SearchTexts ==
    { <<"a", "%">>, <<"A", "b">>, <<"_", "b">>, <<"\\", "a">> }

SearchQueries ==
    { <<"a">>, <<"B">>, <<"%">>, <<"_">>, <<"\\">>, <<"a", "%">>, <<"_", "b">> }

\* a call other than get_history was made: `listed` is followed no further
forgetList ==
    /\ listed' = NoList
    /\ UNCHANGED <<listenerVars, pasteVars, clipVars, newest, file, threadVars, handleVars, inputVars, hotkeyVars>>

NextSearch ==
    \/ \E t \in SearchTexts :
            seq < MaxId /\ add_entry(t, "text", NULL) /\ forgetList
    \/ \E b \in EditImages :
            seq < MaxId /\ add_entry(<<>>, "image", b) /\ forgetList
    \/ \E q \in SearchQueries : list_history(LOAD_LIMIT, 0, q)

SpecSearch == Init /\ [][NextSearch]_vars

\* ------------------------------------------------------------------------
\* Paging through the history
\* ------------------------------------------------------------------------

NextPage ==
    \/ \E t \in LifeTexts :
            seq < MaxId /\ add_entry(t, "text", NULL) /\ forgetList
    \/ \E b \in EditImages :
            seq < MaxId /\ add_entry(<<>>, "image", b) /\ forgetList
    \/ \E id \in 1..MaxId : toggle_pin(id) /\ forgetList
    \/ \E limit \in 0..MaxLimit : \E offset \in 0..MaxOffset :
            list_history(limit, offset, <<>>)

SpecPage == Init /\ [][NextPage]_vars

\* ------------------------------------------------------------------------
\* Pasting from the history while other applications copy
\* ------------------------------------------------------------------------

ExternalClips ==
    { TextClip("ext", <<"a">>), TextClip("ext", <<"b", "\n", "c", "d">>) }

NextPaste ==
    \/ \E c \in ExternalClips : external_copy(c)
    \/ get_message
    \/ wnd_proc
    \/ read_clipboard
    \/ read_clipboard_fails
    \/ forward
    \/ \E id \in 1..MaxId : _on_item_click(id)
    \/ paste_set_ignore
    \/ paste_write
    \/ paste_write_fails
    \/ paste_write_empties
    \/ paste_return
    \/ \E c \in 1..MaxPastes : _focus_and_press(c)

SpecPaste == Init /\ [][NextPaste]_vars

\* ------------------------------------------------------------------------
\* The listener's thread from start() to stop()
\* ------------------------------------------------------------------------

\* start(): the thread running _run is started
start ==
    /\ lpc = "Uninitialized"
    /\ lpc' = "run"
    /\ UNCHANGED <<storeVars, pasteVars, clipVars, cur, captured, monitor, handleVars, inputVars, hotkeyVars>>

\* _run: self._thread_id = GetCurrentThreadId(), and self._wndproc_ref is
\* given the callback object
run_thread_id ==
    /\ lpc = "run"
    /\ monitor' = [monitor EXCEPT !.thread_id = Some(1), !.wndproc_ref = TRUE]
    /\ lpc' = "register_class"
    /\ UNCHANGED <<storeVars, pasteVars, clipVars, cur, captured, handleVars, inputVars, hotkeyVars>>

\* _run: RegisterClassW; on failure the error is logged, _ready is set and
\* the thread returns
register_class(ok) ==
    /\ lpc = "register_class"
    /\ IF ok
       THEN /\ lpc' = "create_window"
            /\ monitor' = [monitor EXCEPT !.registered = TRUE]
            /\ UNCHANGED queue
       ELSE /\ lpc' = "Stopped"
            /\ monitor' = [monitor EXCEPT !.ready = TRUE, !.failed = "class"]
            /\ queue' = <<>>
    /\ UNCHANGED <<storeVars, pasteVars, ignore_next, clip, cur, captured, handleVars, inputVars, hotkeyVars>>

\* _run: CreateWindowExW; with no window _ready is set, the class is
\* unregistered and the thread returns
create_window(ok) ==
    /\ lpc = "create_window"
    /\ IF ok
       THEN /\ lpc' = "add_listener"
            /\ monitor' = [monitor EXCEPT !.window = TRUE]
            /\ UNCHANGED queue
       ELSE /\ lpc' = "Stopped"
            /\ monitor' = [monitor EXCEPT !.ready = TRUE, !.failed = "window",
                                          !.registered = FALSE]
            /\ queue' = <<>>
    /\ UNCHANGED <<storeVars, pasteVars, ignore_next, clip, cur, captured, handleVars, inputVars, hotkeyVars>>

\* _run: AddClipboardFormatListener(self._hwnd), whose result is not read
add_listener(ok) ==
    /\ lpc = "add_listener"
    /\ monitor' = [monitor EXCEPT !.listening = ok,
                                  !.failed = IF ok THEN @ ELSE "listener"]
    /\ lpc' = "set_ready"
    /\ UNCHANGED <<storeVars, pasteVars, clipVars, cur, captured, handleVars, inputVars, hotkeyVars>>

\* _run: self._ready.set(), then the loop's first `while` test
set_ready ==
    /\ lpc = "set_ready"
    /\ monitor' = [monitor EXCEPT !.ready = TRUE]
    /\ lpc' = LoopCheck
    /\ UNCHANGED <<storeVars, pasteVars, clipVars, cur, captured, handleVars, inputVars, hotkeyVars>>

\* GetMessageW returns -1, an error: `if ret <= 0: break`
get_message_fails ==
    /\ lpc = "wait"
    /\ lpc' = "cleanup"
    /\ UNCHANGED <<storeVars, pasteVars, clipVars, cur, captured, monitor,
                   handleVars, inputVars, hotkeyVars>>

\* the window destroyed while it is still a clipboard format listener
remove_listener_DestroysFirst ==
    /\ lpc = "cleanup"
    /\ lpc' = "destroy_window"
    /\ monitor' = [monitor EXCEPT !.window = FALSE]
    /\ UNCHANGED <<storeVars, pasteVars, clipVars, cur, captured, handleVars, inputVars, hotkeyVars>>

\* _run after the loop: RemoveClipboardFormatListener(self._hwnd)
remove_listener ==
    /\ lpc = "cleanup"
    /\ lpc' = "destroy_window"
    /\ monitor' = [monitor EXCEPT !.listening = FALSE]
    /\ UNCHANGED <<storeVars, pasteVars, clipVars, cur, captured, handleVars, inputVars, hotkeyVars>>

\* DestroyWindow(self._hwnd)
destroy_window ==
    /\ lpc = "destroy_window"
    /\ lpc' = "unregister_class"
    /\ monitor' = [monitor EXCEPT !.window = FALSE]
    /\ UNCHANGED <<storeVars, pasteVars, clipVars, cur, captured, handleVars, inputVars, hotkeyVars>>

\* UnregisterClassW, and the thread ends with whatever its queue still held
unregister_class ==
    /\ lpc = "unregister_class"
    /\ lpc' = "Stopped"
    /\ monitor' = [monitor EXCEPT !.registered = FALSE]
    /\ queue' = <<>>
    /\ UNCHANGED <<storeVars, pasteVars, ignore_next, clip, cur, captured, handleVars, inputVars, hotkeyVars>>

\* stop(): self._running.clear()
stop_clear ==
    /\ monitor.stop_pc = "idle"
    /\ monitor' = [monitor EXCEPT !.running = FALSE, !.stop_pc = "wait"]
    /\ UNCHANGED <<storeVars, pasteVars, clipVars, lpc, cur, captured, handleVars, inputVars, hotkeyVars>>

\* stop(): self._ready.wait(timeout=1) returns, _ready set or the second over
stop_wait ==
    /\ monitor.stop_pc = "wait"
    /\ monitor' = [monitor EXCEPT !.stop_pc = "post"]
    /\ UNCHANGED <<storeVars, pasteVars, clipVars, lpc, cur, captured, handleVars, inputVars, hotkeyVars>>

\* whether PostThreadMessageW can queue a message for the thread: not before
\* its first window call, not after it has ended, and either way while the
\* thread is between RegisterClassW and CreateWindowExW
CanPost == { "create_window", "add_listener", "set_ready", "wait", "wnd_proc",
             "read", "forward", "cleanup", "destroy_window",
             "unregister_class" }

MayNotPost == { "Uninitialized", "run", "register_class", "create_window",
                "Stopped" }

\* stop() without its PostThreadMessageW
stop_post_NoQuit ==
    /\ monitor.stop_pc = "post"
    /\ monitor' = [monitor EXCEPT !.stop_pc = "join",
                       !.posted = IF monitor.thread_id = NULL
                                  THEN "no_thread_id" ELSE "failed"]
    /\ UNCHANGED <<storeVars, pasteVars, clipVars, lpc, cur, captured, handleVars, inputVars, hotkeyVars>>

\* stop(): `if self._thread_id:` PostThreadMessageW(thread_id, WM_QUIT, 0, 0)
stop_post ==
    /\ monitor.stop_pc = "post"
    /\ IF monitor.thread_id = NULL
       THEN /\ monitor' = [monitor EXCEPT !.stop_pc = "join",
                                          !.posted = "no_thread_id"]
            /\ UNCHANGED queue
       ELSE \/ /\ lpc \in CanPost
               /\ monitor' = [monitor EXCEPT !.stop_pc = "join",
                                             !.posted = "queued"]
               /\ queue' = Append(queue, "quit")
            \/ /\ lpc \in MayNotPost
               /\ monitor' = [monitor EXCEPT !.stop_pc = "join",
                                             !.posted = "failed"]
               /\ UNCHANGED queue
    /\ UNCHANGED <<storeVars, pasteVars, ignore_next, clip, lpc, cur, captured, handleVars, inputVars, hotkeyVars>>

\* stop(): `if self._thread.is_alive(): self._thread.join(timeout=2)` returns,
\* the thread ended or the two seconds over
stop_join ==
    /\ monitor.stop_pc = "join"
    /\ monitor' = [monitor EXCEPT !.stop_pc = "done"]
    /\ UNCHANGED <<storeVars, pasteVars, clipVars, lpc, cur, captured, handleVars, inputVars, hotkeyVars>>

\* a copy by another application while there is room for what it may add
monitored_copy(c) ==
    /\ seq + Len(queue) + (IF lpc \in {"wnd_proc", "read", "forward"}
                           THEN 1 ELSE 0) < MaxId
    /\ external_copy(c)

\* ClipboardMonitor.__init__ done, start() not yet called
InitMonitor ==
    /\ InitStore
    /\ ignore_next = FALSE
    /\ clip = EmptyClip("none")
    /\ queue = <<>>
    /\ lpc = "Uninitialized"
    /\ cur = "none"
    /\ captured = NoCapture
    /\ monitor = NewMonitor
    /\ ppc = "idle"
    /\ pentry = NoEntry
    /\ calls = 0
    /\ wrote = {}
    /\ started = {}
    /\ pressed = {}
    /\ opened = "none"
    /\ attempt = [listener |-> 0, paste |-> 0]
    /\ tasks = <<>>
    /\ windows = TargetWindows
    /\ sent = <<>>
    /\ hotkey = NewHotkey

\* the steps of the listener's thread
ListenerThread ==
    \/ run_thread_id
    \/ \E ok \in BOOLEAN : register_class(ok)
    \/ \E ok \in BOOLEAN : create_window(ok)
    \/ \E ok \in BOOLEAN : add_listener(ok)
    \/ set_ready
    \/ get_message
    \/ wnd_proc
    \/ read_clipboard
    \/ read_clipboard_fails
    \/ forward
    \/ get_message_fails
    \/ remove_listener
    \/ destroy_window
    \/ unregister_class

\* the steps of a stop() call once it has begun
StopCall ==
    \/ stop_wait
    \/ stop_post
    \/ stop_join

NextMonitor ==
    \/ start
    \/ ListenerThread
    \/ stop_clear
    \/ StopCall
    \/ \E c \in ExternalClips : monitored_copy(c)

SpecMonitor == InitMonitor /\ [][NextMonitor]_vars

\* each thread that can take a step gets to take one
FairMonitor ==
    SpecMonitor /\ WF_vars(ListenerThread) /\ WF_vars(StopCall)

\* ------------------------------------------------------------------------
\* Opening the store on the file an earlier session left behind
\* ------------------------------------------------------------------------

\* what the file at db_path can be: a sound database, bytes that are no
\* database, or a database some of whose pages are damaged
FileStates == {"ok", "not_a_database", "malformed"}

\* the file is damaged while no store has it open
damage(k) ==
    /\ closed
    /\ file = "ok"
    /\ file' = k
    /\ last' = OtherCall
    /\ run' = 0
    /\ UNCHANGED <<rows, seq, last_expire_time, closed, now, ticks>>
    /\ UNCHANGED <<listenerVars, pasteVars, clipVars, newest, listed, threadVars, handleVars, inputVars, hotkeyVars>>

\* whether conn.execute("PRAGMA integrity_check") raises sqlite3.DatabaseError:
\* it does when the file is no database; on damaged pages the statement
\* either raises or yields rows that report the damage, rows nobody fetches
CheckRaises(f) ==
    IF f = "ok" THEN {FALSE}
    ELSE IF f = "not_a_database" THEN {TRUE}
    ELSE BOOLEAN

\* _open_or_recreate: the file the returned connection is on. Only when the
\* check raised is the file removed, and an OSError from os.remove is passed
\* over before connecting again
_open_or_recreate(f, raises, removed) ==
    IF raises /\ removed
    THEN [file |-> "ok", recreated |-> TRUE]
    ELSE [file |-> f, recreated |-> FALSE]

\* Database.__init__: the connection from _open_or_recreate, the PRAGMAs,
\* _create_tables, _migrate, _expire_old_entries. On a file that is no
\* database the first PRAGMA raises; on damaged pages any of the statements
\* may
Database__init__ ==
    /\ closed
    /\ \E raises \in CheckRaises(file) : \E removed, later_raises \in BOOLEAN :
        LET conn == _open_or_recreate(file, raises, removed)
            fails == \/ conn.file = "not_a_database"
                     \/ conn.file = "malformed" /\ later_raises
        IN  IF fails
            THEN /\ last' = [op |-> "__init__", arg |-> <<>>, ret |-> FALSE,
                             id |-> 0]
                 /\ UNCHANGED <<rows, seq, last_expire_time, closed, file>>
            ELSE /\ closed' = FALSE
                 /\ file' = conn.file
                 /\ rows' = IF conn.recreated THEN {}
                            ELSE DeleteExpired(rows, now)
                 /\ seq' = IF conn.recreated THEN 0 ELSE seq
                 /\ last_expire_time' = now
                 /\ last' = [op |-> "__init__", arg |-> <<>>, ret |-> TRUE,
                             id |-> 0]
    /\ run' = 0
    /\ UNCHANGED <<now, ticks>>
    /\ UNCHANGED <<listenerVars, pasteVars, clipVars, newest, listed, threadVars, handleVars, inputVars, hotkeyVars>>

\* a call on the open store meets a damaged page: the statement raises
\* sqlite3.DatabaseError, which no method of Database catches
call_raises ==
    /\ ~closed
    /\ file = "malformed"
    /\ last' = [op |-> "raised", arg |-> <<>>, ret |-> FALSE, id |-> 0]
    /\ run' = 0
    /\ UNCHANGED <<rows, seq, last_expire_time, closed, now, ticks>>
    /\ UNCHANGED <<listenerVars, pasteVars, clipVars, newest, listed, file, threadVars, handleVars, inputVars, hotkeyVars>>

\* an add while the clock, which every insert moves on, is within the ids
open_add(t) == now < MaxId /\ add_text(t)

NextOpen ==
    \/ \E t \in LifeTexts : open_add(t)
    \/ \E id \in 1..MaxId : toggle_pin(id) /\ othersIdle
    \/ close /\ othersIdle
    \/ \E k \in FileStates \ {"ok"} : damage(k)
    \/ Database__init__
    \/ call_raises

SpecOpen == Init /\ [][NextOpen]_vars

\* ------------------------------------------------------------------------
\* add_entry called with every mix of its three arguments
\* ------------------------------------------------------------------------

KindTexts == { <<>>, <<"a">>, <<"b", "\n", "c", "d">> }

KindImages == { <<>>, <<1>>, <<2>> }

NextKinds ==
    \/ \E content \in KindTexts : \E content_type \in {"text", "image"} :
         \E image_data \in KindImages :
            /\ seq < MaxId
            /\ add_entry(content, content_type, image_data)
            /\ othersIdle
    \/ \E id \in 1..MaxId : toggle_pin(id) /\ othersIdle
    \/ \E id \in 1..MaxId : delete_entry(id) /\ othersIdle

SpecKinds == Init /\ [][NextKinds]_vars

\* ------------------------------------------------------------------------
\* Texts longer than the store keeps, with line ends in them
\* ------------------------------------------------------------------------

TrimTexts ==
    { <<"a", "\n", "b", "c", "d">>, <<" ", "\n", "a">>,
      <<"\n", "a", "\r", "\n", "b">>, <<"a", "b">> }

NextTrim ==
    \/ \E t \in TrimTexts : add_text(t)
    \/ \E id \in 1..MaxId : delete_entry(id) /\ othersIdle

SpecTrim == Init /\ [][NextTrim]_vars

\* ------------------------------------------------------------------------
\* Ids across every way an entry leaves the table
\* ------------------------------------------------------------------------

NextIds ==
    \/ \E t \in LifeTexts : add_text(t)
    \/ \E b \in EditImages : add_image(b)
    \/ \E id \in 1..MaxId : delete_entry(id) /\ othersIdle
    \/ clear_all /\ othersIdle
    \/ close /\ othersIdle
    \/ reopen /\ othersIdle
    \/ \E d \in TickSteps : Tick(d) /\ othersIdle

SpecIds == Init /\ [][NextIds]_vars

\* ------------------------------------------------------------------------
\* The listener reading clipboards of every make-up
\* ------------------------------------------------------------------------

\* a bitmap of n bytes
Dib(n, decodable) ==
    [len |-> n, pixels |-> <<1>>, decodable |-> decodable,
     header |-> Some(PlainHeader)]

\* what other applications put on the clipboard: text; blank text with a
\* file list; an empty file list with a bitmap; text with a bitmap; bitmaps at
\* the size limit, over it, and one that cannot be decoded; nothing
CaptureClips ==
    { TextClip("ext", <<"a">>),
      [ text |-> Some(<<" ">>), files |-> Some(<< <<"p">>, <<"q">> >>),
        dib |-> NULL, owner |-> "ext" ],
      [ text |-> NULL, files |-> Some(<<>>),
        dib |-> Some(Dib(1, TRUE)), owner |-> "ext" ],
      [ text |-> Some(<<"b">>), files |-> NULL,
        dib |-> Some(Dib(1, TRUE)), owner |-> "ext" ],
      DibClip("ext", Dib(MAX_IMAGE_BYTES, TRUE)),
      DibClip("ext", Dib(MAX_IMAGE_BYTES + 1, TRUE)),
      DibClip("ext", Dib(1, FALSE)),
      EmptyClip("ext") }

NextCapture ==
    \/ \E c \in CaptureClips : external_copy(c)
    \/ get_message
    \/ wnd_proc
    \/ read_clipboard
    \/ read_clipboard_fails
    \/ forward

SpecCapture == Init /\ [][NextCapture]_vars

\* ------------------------------------------------------------------------
\* The expiration passes: adds and deletes while the clock moves on and the
\* store is closed and opened again
\* ------------------------------------------------------------------------

NextExpire ==
    \/ \E t \in LifeTexts : add_text(t)
    \/ \E id \in 1..MaxId : delete_entry(id) /\ othersIdle
    \/ close /\ othersIdle
    \/ reopen /\ othersIdle
    \/ \E d \in TickSteps : Tick(d) /\ othersIdle

SpecExpire == Init /\ [][NextExpire]_vars

\* ------------------------------------------------------------------------
\* The store called from two threads: every call statement by statement,
\* the statements inside `with self.lock` taken while the lock is held
\* ------------------------------------------------------------------------

LockTexts == { <<"a">>, <<"c">> }

\* the ids the calls of the threads name
LockIds == 1..MAX_HISTORY_SIZE

\* the id the reading calls name
ReadIds == {1}

\* the calls that read one row, those that change one, and those that take
\* nothing
ReadCalls == {"get_entry", "get_image_data"}

IdCalls == {"delete_entry", "toggle_pin"}

PlainCalls == {"get_history", "clear_all", "close"}

\* what the threads leave alone
threadsOnly ==
    /\ UNCHANGED <<ticks, last, run, newest, listed, file>>
    /\ UNCHANGED <<listenerVars, pasteVars, clipVars, handleVars, inputVars, hotkeyVars>>

Other(th) == CHOOSE o \in Threads : o # th

\* the latest entry is the text c
LatestIs(rs, c) ==
    rs # {} /\ LatestRow(rs).content_type = "text" /\ LatestRow(rs).content = c

\* the call returns: the `with` block is left, the lock released
Return(th, ret, seen) ==
    /\ thread' = [thread EXCEPT ![th].pc = "idle", ![th].id = 0,
                                ![th].ret = ret, ![th].seen = seen]
    /\ lock' = "free"

\* a statement on self.conn: after close() self.conn is None and the
\* statement raises AttributeError, which leaves the `with` block
OnConn(th, statement) ==
    IF closed
    THEN /\ Return(th, "raised", 0)
         /\ UNCHANGED <<rows, seq, last_expire_time, closed, now>>
    ELSE statement

\* add_entry up to `with self.lock`: _closed read without the lock, the blank
\* check, the cut to MAX_CONTENT_LENGTH
call_add(th, content) ==
    /\ thread[th].pc = "idle"
    /\ seq <= MAX_HISTORY_SIZE
    /\ LET stored == Prefix(content, MAX_CONTENT_LENGTH)
           o == Other(th)
           together == /\ thread[o].pc # "idle"
                       /\ thread[o].op = "add_entry"
                       /\ thread[o].arg = stored
           call == [IdleThread EXCEPT !.op = "add_entry", !.arg = stored]
       IN  IF closed \/ IsBlank(content)
           THEN thread' = [thread EXCEPT ![th] = [call EXCEPT !.ret = "false"]]
           ELSE thread' = [thread EXCEPT
                              ![th] = [call EXCEPT
                                          !.pc = "acquire",
                                          !.fresh = ~LatestIs(rows, stored),
                                          !.peer = together],
                              ![o].peer = IF together THEN TRUE ELSE @]
    /\ UNCHANGED <<rows, seq, last_expire_time, closed, now, lock>>
    /\ threadsOnly

\* every other method: nothing before `with self.lock`
call_other(th, op, id) ==
    /\ thread[th].pc = "idle"
    /\ thread' = [thread EXCEPT
                     ![th] = [IdleThread EXCEPT !.pc = "acquire", !.op = op,
                                                !.id = id]]
    /\ UNCHANGED <<rows, seq, last_expire_time, closed, now, lock>>
    /\ threadsOnly

\* `with self.lock`: threading.Lock, taken when no thread holds it
acquire(th) ==
    /\ thread[th].pc = "acquire"
    /\ lock = "free"
    /\ lock' = th
    /\ thread' = [thread EXCEPT ![th].pc = "locked"]
    /\ UNCHANGED <<rows, seq, last_expire_time, closed, now>>
    /\ threadsOnly

\* add_entry going on to the table without looking at _closed again
add_closed_check_Skip(th) ==
    /\ thread[th].pc = "locked"
    /\ thread[th].op = "add_entry"
    /\ thread' = [thread EXCEPT ![th].pc = "select"]
    /\ UNCHANGED <<rows, seq, last_expire_time, closed, now, lock>>
    /\ threadsOnly

\* add_entry inside the lock: `if self._closed: return False`
add_closed_check(th) ==
    /\ thread[th].pc = "locked"
    /\ thread[th].op = "add_entry"
    /\ IF closed
       THEN Return(th, "false", 0)
       ELSE thread' = [thread EXCEPT ![th].pc = "select"] /\ UNCHANGED lock
    /\ UNCHANGED <<rows, seq, last_expire_time, closed, now>>
    /\ threadsOnly

\* the dedup query and its comparison with the content to add
add_select(th) ==
    /\ thread[th].pc = "select"
    /\ OnConn(th,
          /\ IF LatestIs(rows, thread[th].arg)
             THEN Return(th, "false", 0)
             ELSE thread' = [thread EXCEPT ![th].pc = "insert"]
                  /\ UNCHANGED lock
          /\ UNCHANGED <<rows, seq, last_expire_time, closed, now>>)
    /\ threadsOnly

\* INSERT with time.time() as the timestamp, commit
add_insert(th) ==
    /\ thread[th].pc = "insert"
    /\ OnConn(th,
          LET row == NewRow(NextId(rows, seq), thread[th].arg, "text", now,
                            TextPreview(thread[th].arg), NULL, NULL)
          IN  /\ rows' = rows \cup {row}
              /\ seq' = row.id
              /\ now' = now + 1
              /\ thread' = [thread EXCEPT ![th].pc = "cleanup"]
              /\ UNCHANGED <<last_expire_time, closed, lock>>)
    /\ threadsOnly

\* self._cleanup_unlocked()
add_cleanup(th) ==
    /\ thread[th].pc = "cleanup"
    /\ OnConn(th,
          /\ rows' = _cleanup_unlocked(rows)
          /\ thread' = [thread EXCEPT ![th].pc = "expire"]
          /\ UNCHANGED <<seq, last_expire_time, closed, now, lock>>)
    /\ threadsOnly

\* self._maybe_expire_unlocked(); return True
add_expire(th) ==
    /\ thread[th].pc = "expire"
    /\ LET expired == _maybe_expire_unlocked(rows, last_expire_time, now)
       IN  IF expired.last_expire_time # last_expire_time
           THEN OnConn(th,
                   /\ rows' = expired.rows
                   /\ last_expire_time' = expired.last_expire_time
                   /\ Return(th, "true", 0)
                   /\ UNCHANGED <<seq, closed, now>>)
           ELSE /\ Return(th, "true", 0)
                /\ UNCHANGED <<rows, seq, last_expire_time, closed, now>>
    /\ threadsOnly

\* the body of every other method, inside the lock: `if self._closed:
\* return`, then its one statement (and commit)
locked_body(th) ==
    /\ thread[th].pc = "locked"
    /\ thread[th].op # "add_entry"
    /\ LET op == thread[th].op
           id == thread[th].id
       IN  IF op = "close"
           THEN /\ closed' = TRUE
                /\ Return(th, "done", 0)
                /\ UNCHANGED <<rows, seq, last_expire_time, now>>
           ELSE IF closed
           THEN /\ Return(th, CASE op = "get_history" -> "empty"
                                [] op \in {"get_entry", "get_image_data"}
                                       -> "notfound"
                                [] OTHER -> "done", 0)
                /\ UNCHANGED <<rows, seq, last_expire_time, closed, now>>
           ELSE /\ rows' = CASE op = "delete_entry"
                                   -> {r \in rows : r.id # id}
                             [] op = "toggle_pin" -> SetPinned(rows, id)
                             [] op = "clear_all" -> {r \in rows : r.pinned}
                             [] OTHER -> rows
                /\ Return(th,
                     CASE op = "get_history" -> "rows"
                       [] op = "get_entry" ->
                            IF get_entry(rows, id) # NULL
                            THEN "found" ELSE "notfound"
                       [] op = "get_image_data" ->
                            IF /\ get_entry(rows, id) # NULL
                               /\ get_entry(rows, id)[1].image_data # NULL
                            THEN "found" ELSE "notfound"
                       [] OTHER -> "done",
                     IF op = "get_history"
                     THEN Len(get_history(rows, FALSE, MAX_HISTORY_SIZE + 2,
                                          0, <<>>))
                     ELSE 0)
                /\ UNCHANGED <<seq, last_expire_time, closed, now>>
    /\ threadsOnly

NextLock ==
    \/ \E th \in Threads : \E t \in LockTexts : call_add(th, t)
    \/ \E op \in ReadCalls : \E id \in ReadIds : call_other("caller", op, id)
    \/ \E op \in IdCalls : \E id \in LockIds : call_other("caller", op, id)
    \/ \E op \in PlainCalls : call_other("caller", op, 0)
    \/ \E th \in Threads : acquire(th)
    \/ \E th \in Threads : add_closed_check(th)
    \/ \E th \in Threads : add_select(th)
    \/ \E th \in Threads : add_insert(th)
    \/ \E th \in Threads : add_cleanup(th)
    \/ \E th \in Threads : add_expire(th)
    \/ \E th \in Threads : locked_body(th)

SpecLock == Init /\ [][NextLock]_vars

\* ------------------------------------------------------------------------
\* The system's clipboard as a handle: opened, used and closed by the
\* listener, by the paste engine and by other applications
\* ------------------------------------------------------------------------

\* range(3) of _read_clipboard's retry loop
ReadAttempts == 3

\* _open_clipboard_retry(attempts=3, ...)
attempts == 3

\* another application opens the clipboard
other_open ==
    /\ opened = "none"
    /\ opened' = "other"
    /\ UNCHANGED <<storeVars, listenerVars, pasteVars, clipVars, attempt, inputVars, hotkeyVars>>

\* it writes the clipboard while it has it open
other_write(c) ==
    /\ opened = "other"
    /\ Len(queue) < MaxQueue
    /\ clip # c
    /\ clip' = c
    /\ queue' = IF monitor.listening THEN Append(queue, "ext") ELSE queue
    /\ UNCHANGED <<storeVars, listenerVars, pasteVars, ignore_next, handleVars, inputVars, hotkeyVars>>

\* and closes it
other_close ==
    /\ opened = "other"
    /\ opened' = "none"
    /\ UNCHANGED <<storeVars, listenerVars, pasteVars, clipVars, attempt, inputVars, hotkeyVars>>

\* _read_clipboard: one OpenClipboard() of the retry loop. It raises while
\* the clipboard is open elsewhere; after the third failure the method
\* returns
read_open ==
    /\ lpc \in {"read", "read_retry"}
    /\ LET n == IF lpc = "read" THEN 1 ELSE attempt.listener + 1
           again == opened # "none" /\ n < ReadAttempts
       IN  /\ attempt' = [attempt EXCEPT
                             !.listener = IF opened = "none" THEN 0 ELSE n]
           /\ IF opened = "none"
              THEN /\ opened' = "listener"
                   /\ lpc' = "formats"
                   /\ UNCHANGED cur
              ELSE /\ UNCHANGED opened
                   /\ IF again
                      THEN lpc' = "read_retry" /\ UNCHANGED cur
                      ELSE lpc' = LoopCheck /\ cur' = "none"
    /\ UNCHANGED <<storeVars, pasteVars, clipVars, captured, monitor,
                   inputVars, hotkeyVars>>

\* the formats are read inside `try`; a call that raises leaves for `finally`
read_formats(raises) ==
    /\ lpc = "formats"
    /\ IF raises
       THEN lpc' = "close_raised" /\ UNCHANGED captured
       ELSE lpc' = "close" /\ captured' = ReadFormats(clip)
    /\ UNCHANGED <<storeVars, pasteVars, clipVars, cur, monitor, handleVars, inputVars, hotkeyVars>>

\* CloseClipboard() on the way without an exception only
read_close_NoFinally ==
    /\ lpc \in {"close", "close_raised"}
    /\ IF lpc = "close"
       THEN lpc' = "forward" /\ opened' = "none" /\ UNCHANGED cur
       ELSE lpc' = LoopCheck /\ cur' = "none" /\ UNCHANGED opened
    /\ UNCHANGED <<storeVars, pasteVars, clipVars, captured, monitor, attempt, inputVars, hotkeyVars>>

\* `finally: CloseClipboard()`, then on to the forwarding, or with the
\* exception to `except Exception` and back to the loop
read_close ==
    /\ lpc \in {"close", "close_raised"}
    /\ opened' = "none"
    /\ IF lpc = "close"
       THEN lpc' = "forward" /\ UNCHANGED cur
       ELSE lpc' = LoopCheck /\ cur' = "none"
    /\ UNCHANGED <<storeVars, pasteVars, clipVars, captured, monitor, attempt, inputVars, hotkeyVars>>

\* _set_clipboard_image: Image.open or save raises before the clipboard is
\* touched; the write returns False
paste_convert_fails ==
    /\ ppc = "write"
    /\ pentry.content_type = "image"
    /\ ppc' = "failed"
    /\ UNCHANGED <<storeVars, listenerVars, clipVars,
                   pentry, calls, wrote, started, pressed, handleVars, inputVars, hotkeyVars>>

\* the retry loop giving up one call late
paste_open_OneMore ==
    /\ ppc \in {"write", "open_retry"}
    /\ LET n == IF ppc = "write" THEN 1 ELSE attempt.paste + 1
           again == opened # "none" /\ n < attempts + 1
       IN  /\ attempt' = [attempt EXCEPT
                             !.paste = IF opened = "none" THEN 0 ELSE n]
           /\ IF opened = "none"
              THEN opened' = "paste" /\ ppc' = "set"
              ELSE /\ UNCHANGED opened
                   /\ ppc' = IF again THEN "open_retry" ELSE "failed"
    /\ UNCHANGED <<storeVars, listenerVars, clipVars,
                   pentry, calls, wrote, started, pressed, inputVars, hotkeyVars>>

\* _open_clipboard_retry: one OpenClipboard() of the loop; False after the
\* last failure, and the write returns False
paste_open ==
    /\ ppc \in {"write", "open_retry"}
    /\ LET n == IF ppc = "write" THEN 1 ELSE attempt.paste + 1
           again == opened # "none" /\ n < attempts
       IN  /\ attempt' = [attempt EXCEPT
                             !.paste = IF opened = "none" THEN 0 ELSE n]
           /\ IF opened = "none"
              THEN opened' = "paste" /\ ppc' = "set"
              ELSE /\ UNCHANGED opened
                   /\ ppc' = IF again THEN "open_retry" ELSE "failed"
    /\ UNCHANGED <<storeVars, listenerVars, clipVars,
                   pentry, calls, wrote, started, pressed, inputVars, hotkeyVars>>

\* EmptyClipboard() and SetClipboardText / SetClipboardData inside `try`:
\* both done, or the first raises, or the second does
paste_set(raises) ==
    /\ ppc = "set"
    /\ Len(queue) < MaxQueue
    /\ CASE raises = "no" ->
              /\ clip' = PasteClip(pentry)
              /\ queue' = Append(queue, "paste")
              /\ ppc' = "close"
         [] raises = "EmptyClipboard" ->
              /\ UNCHANGED <<clip, queue>>
              /\ ppc' = "close_raised"
         [] raises = "SetClipboardData" ->
              /\ clip' = EmptyClip("paste")
              /\ queue' = Append(queue, "emptied")
              /\ ppc' = "close_raised"
    /\ UNCHANGED <<storeVars, listenerVars, ignore_next,
                   pentry, calls, wrote, started, pressed, handleVars, inputVars, hotkeyVars>>

\* `finally: CloseClipboard()`, then `return True`, or with the exception to
\* `except Exception` and `return False`
paste_close ==
    /\ ppc \in {"close", "close_raised"}
    /\ opened' = "none"
    /\ IF ppc = "close"
       THEN ppc' = "written" /\ wrote' = wrote \cup {calls}
       ELSE ppc' = "failed" /\ UNCHANGED wrote
    /\ UNCHANGED <<storeVars, listenerVars, clipVars,
                   pentry, calls, started, pressed, attempt, inputVars, hotkeyVars>>

HandleClips == { TextClip("ext", <<"a">>), DibClip("ext", Dib(1, TRUE)) }

\* pastes made while the handle is followed
MaxHandlePastes == 1

NextHandle ==
    \/ other_open
    \/ \E c \in HandleClips : other_write(c)
    \/ other_close
    \/ get_message
    \/ wnd_proc
    \/ read_open
    \/ \E raises \in BOOLEAN : read_formats(raises)
    \/ read_close
    \/ forward
    \/ \E id \in 1..MaxId : calls < MaxHandlePastes /\ _on_item_click(id)
    \/ paste_set_ignore
    \/ paste_convert_fails
    \/ paste_open
    \/ \E raises \in {"no", "EmptyClipboard", "SetClipboardData"} :
            paste_set(raises)
    \/ paste_close
    \/ paste_return

SpecHandle == Init /\ [][NextHandle]_vars

\* ------------------------------------------------------------------------
\* paste() handing over to its background thread, and the thread's steps
\* ------------------------------------------------------------------------

VK_CONTROL == 17

VK_V == 86

SCAN_CONTROL == 29

SCAN_V == 47

KEYEVENTF_KEYUP == 2

_make_key_input(vk, scan, flags) == [wVk |-> vk, wScan |-> scan, dwFlags |-> flags]

\* the array handed to SendInput
inputs ==
    << _make_key_input(VK_CONTROL, SCAN_CONTROL, 0),
       _make_key_input(VK_V, SCAN_V, 0),
       _make_key_input(VK_V, SCAN_V, KEYEVENTF_KEYUP),
       _make_key_input(VK_CONTROL, SCAN_CONTROL, KEYEVENTF_KEYUP) >>

\* the target_hwnd paste() is called with: None, or the window that was in
\* the foreground
TargetHandles == {0} \cup TargetWindows

PressTexts == { <<"a">> }

\* paste() after the write: on failure clear_ignore() and return; on success
\* threading.Thread(target=self._focus_and_press, args=(target_hwnd,)).start()
\* and return
paste_start_thread(target_hwnd) ==
    /\ ppc \in {"written", "failed"}
    /\ IF ppc = "failed"
       THEN /\ ignore_next' = FALSE
            /\ UNCHANGED <<started, tasks>>
       ELSE /\ started' = started \cup {calls}
            /\ tasks' = Append(tasks, [ call |-> calls,
                                        target_hwnd |-> target_hwnd,
                                        pc |-> "focus", focused |-> FALSE ])
            /\ UNCHANGED ignore_next
    /\ ppc' = "idle"
    /\ pentry' = NoEntry
    /\ UNCHANGED <<storeVars, listenerVars, clip, queue, calls, wrote, pressed,
                   handleVars, windows, sent, hotkeyVars>>

\* the target window is closed by its application
window_closed(hwnd) ==
    /\ hwnd \in windows
    /\ windows' = windows \ {hwnd}
    /\ UNCHANGED <<storeVars, listenerVars, pasteVars, clipVars, handleVars,
                   tasks, sent, hotkeyVars>>

\* a thread that ends without its key events when it has no window to focus
task_focus_OrReturn(k) ==
    /\ k \in DOMAIN tasks
    /\ tasks[k].pc = "focus"
    /\ LET hwnd == tasks[k].target_hwnd
       IN  tasks' = IF hwnd # 0 /\ hwnd \in windows
                    THEN [tasks EXCEPT ![k].pc = "press", ![k].focused = TRUE]
                    ELSE [tasks EXCEPT ![k].pc = "done"]
    /\ UNCHANGED <<storeVars, listenerVars, pasteVars, clipVars, handleVars,
                   windows, sent, hotkeyVars>>

\* _focus_and_press: `if target_hwnd and user32.IsWindow(target_hwnd)`, then
\* SetForegroundWindow and the settle delay
task_focus(k) ==
    /\ k \in DOMAIN tasks
    /\ tasks[k].pc = "focus"
    /\ LET hwnd == tasks[k].target_hwnd
       IN  tasks' = [tasks EXCEPT
                        ![k].pc = "press",
                        ![k].focused = (hwnd # 0 /\ hwnd \in windows)]
    /\ UNCHANGED <<storeVars, listenerVars, pasteVars, clipVars, handleVars,
                   windows, sent, hotkeyVars>>

\* _focus_and_press: SendInput(4, inputs): the four events go into the input
\* stream together
task_press(k) ==
    /\ k \in DOMAIN tasks
    /\ tasks[k].pc = "press"
    /\ sent' = sent \o inputs
    /\ tasks' = [tasks EXCEPT ![k].pc = "done"]
    /\ pressed' = pressed \cup {tasks[k].call}
    /\ UNCHANGED <<storeVars, listenerVars, clipVars, handleVars,
                   ppc, pentry, calls, wrote, started, windows, hotkeyVars>>

NextPress ==
    \/ \E t \in PressTexts : add_text(t)
    \/ \E id \in 1..MaxId : _on_item_click(id)
    \/ paste_set_ignore
    \/ paste_write
    \/ paste_write_fails
    \/ \E target_hwnd \in TargetHandles : paste_start_thread(target_hwnd)
    \/ \E hwnd \in TargetWindows : window_closed(hwnd)
    \/ \E k \in 1..MaxPastes : task_focus(k)
    \/ \E k \in 1..MaxPastes : task_press(k)

SpecPress == Init /\ [][NextPress]_vars

\* ------------------------------------------------------------------------
\* The listener decoding bitmaps with headers of every make-up
\* ------------------------------------------------------------------------

\* biSize: BITMAPINFOHEADER, BITMAPV5HEADER
HeaderSizes == {40, 124}

\* biBitCount
BitCounts == {0, 8, 32}

\* biCompression: BI_RGB, BI_BITFIELDS, BI_ALPHABITFIELDS
Compressions == {0, 3, 6}

\* biClrUsed
PaletteCounts == {0, 2, DwordLimit - 1}

\* the bitmaps other applications put on the clipboard, one that PIL
\* rejects, and one too short to hold the fields
DibInputs ==
    { [ len |-> 1, pixels |-> <<1>>, decodable |-> TRUE,
        header |-> Some([ bi_size |-> s, bit_count |-> b,
                          compression |-> c, clr_used |-> u ]) ] :
        s \in HeaderSizes, b \in BitCounts,
        c \in Compressions, u \in PaletteCounts }
    \cup { Dib(1, FALSE),
           [len |-> 1, pixels |-> <<1>>, decodable |-> TRUE, header |-> NULL] }

\* _dib_to_png up to Image.open: the file header is put together
dib_header ==
    /\ lpc = "forward"
    /\ captured.raw_dib # NULL
    /\ captured.bmp_header = NULL
    /\ bmp_header(captured.raw_dib[1]) # NULL
    /\ captured' = [captured EXCEPT !.bmp_header = bmp_header(captured.raw_dib[1])]
    /\ UNCHANGED <<storeVars, pasteVars, clipVars, lpc, cur, monitor,
                   handleVars, inputVars, hotkeyVars>>

NextDib ==
    \/ \E dib \in DibInputs : external_copy(DibClip("ext", dib))
    \/ get_message
    \/ wnd_proc
    \/ read_clipboard
    \/ dib_header
    \/ forward

SpecDib == Init /\ [][NextDib]_vars

\* ------------------------------------------------------------------------
\* The hotkey thread, started and stopped
\* ------------------------------------------------------------------------

\* presses of Ctrl+Shift+V by the user
MaxPresses == 2

\* start(): self._thread = Thread(target=self._run, daemon=True), started
hotkey_start ==
    /\ hotkey.pc = "Uninitialized"
    /\ hotkey' = [hotkey EXCEPT !.pc = "run"]
    /\ UNCHANGED <<storeVars, listenerVars, pasteVars, clipVars, handleVars,
                   inputVars>>

\* _run: self._thread_id = GetCurrentThreadId()
hotkey_thread_id ==
    /\ hotkey.pc = "run"
    /\ hotkey' = [hotkey EXCEPT !.pc = "register", !.thread_id = Some(2)]
    /\ UNCHANGED <<storeVars, listenerVars, pasteVars, clipVars, handleVars,
                   inputVars>>

\* _run: result = RegisterHotKey(None, HOTKEY_ID, ...), the thread's first
\* call into user32; self.registered = bool(result)
register_hotkey(result) ==
    /\ hotkey.pc = "register"
    /\ hotkey' = [hotkey EXCEPT !.pc = "set_ready", !.registered = result,
                                !.held = result]
    /\ UNCHANGED <<storeVars, listenerVars, pasteVars, clipVars, handleVars,
                   inputVars>>

\* _run: self._ready.set(); `if not result: return`
hotkey_set_ready ==
    /\ hotkey.pc = "set_ready"
    /\ hotkey' = [hotkey EXCEPT !.ready = TRUE,
                                !.pc = IF hotkey.registered
                                       THEN "wait" ELSE "Stopped"]
    /\ UNCHANGED <<storeVars, listenerVars, pasteVars, clipVars, handleVars,
                   inputVars>>

\* _run: GetMessageW returns with the next message of the thread's queue,
\* 0 for WM_QUIT
hotkey_get_message ==
    /\ hotkey.pc = "wait"
    /\ hotkey.queue # <<>>
    /\ hotkey' = [hotkey EXCEPT !.queue = Tail(hotkey.queue),
                                !.pc = IF Head(hotkey.queue) = "quit"
                                       THEN "unregister" ELSE "dispatch"]
    /\ UNCHANGED <<storeVars, listenerVars, pasteVars, clipVars, handleVars,
                   inputVars>>

\* _run: GetMessageW returns -1, which ends `while ... > 0` as well
hotkey_get_message_fails ==
    /\ hotkey.pc = "wait"
    /\ hotkey' = [hotkey EXCEPT !.pc = "unregister"]
    /\ UNCHANGED <<storeVars, listenerVars, pasteVars, clipVars, handleVars,
                   inputVars>>

\* _run: `if msg.message == WM_HOTKEY and msg.wParam == HOTKEY_ID:
\* self.on_activate()`
hotkey_dispatch ==
    /\ hotkey.pc = "dispatch"
    /\ hotkey' = [hotkey EXCEPT !.pc = "wait",
                                !.activated = hotkey.activated + 1]
    /\ UNCHANGED <<storeVars, listenerVars, pasteVars, clipVars, handleVars,
                   inputVars>>

\* _run: UnregisterHotKey(None, HOTKEY_ID), and the thread ends
unregister_hotkey ==
    /\ hotkey.pc = "unregister"
    /\ hotkey' = [hotkey EXCEPT !.pc = "Stopped", !.held = FALSE]
    /\ UNCHANGED <<storeVars, listenerVars, pasteVars, clipVars, handleVars,
                   inputVars>>

\* the user presses Ctrl+Shift+V while the hotkey is registered: WM_HOTKEY
\* goes to the queue of the thread that registered it
hotkey_pressed ==
    /\ hotkey.held
    /\ hotkey.presses < MaxPresses
    /\ hotkey' = [hotkey EXCEPT !.queue = Append(hotkey.queue, "hotkey"),
                                !.presses = hotkey.presses + 1]
    /\ UNCHANGED <<storeVars, listenerVars, pasteVars, clipVars, handleVars,
                   inputVars>>

\* where PostThreadMessageW finds a message queue: from the thread's first
\* call into user32 until the thread ends
HotkeyCanPost == { "set_ready", "wait", "dispatch", "unregister" }

\* stop(): `if self._thread_id:` PostThreadMessageW(thread_id, WM_QUIT, 0, 0),
\* whose result is not read
hotkey_stop_post ==
    /\ hotkey.stop_pc = "idle"
    /\ hotkey' = [hotkey EXCEPT
           !.stop_pc = "join",
           !.posted = IF hotkey.thread_id = NULL THEN "no_thread_id"
                      ELSE IF hotkey.pc \in HotkeyCanPost THEN "queued"
                      ELSE "failed",
           !.queue = IF hotkey.thread_id # NULL /\ hotkey.pc \in HotkeyCanPost
                     THEN Append(hotkey.queue, "quit")
                     ELSE hotkey.queue]
    /\ UNCHANGED <<storeVars, listenerVars, pasteVars, clipVars, handleVars,
                   inputVars>>

\* stop(): `if self._thread and self._thread.is_alive():
\* self._thread.join(timeout)` returns, the thread ended or the two seconds
\* over
hotkey_stop_join ==
    /\ hotkey.stop_pc = "join"
    /\ hotkey' = [hotkey EXCEPT !.stop_pc = "done"]
    /\ UNCHANGED <<storeVars, listenerVars, pasteVars, clipVars, handleVars,
                   inputVars>>

\* the steps of _run that the thread takes by itself
HotkeyThread ==
    \/ hotkey_thread_id
    \/ \E result \in BOOLEAN : register_hotkey(result)
    \/ hotkey_set_ready
    \/ hotkey_get_message
    \/ hotkey_dispatch
    \/ unregister_hotkey

HotkeyStopCall ==
    \/ hotkey_stop_post
    \/ hotkey_stop_join

NextHotkey ==
    \/ hotkey_start
    \/ HotkeyThread
    \/ hotkey_get_message_fails
    \/ hotkey_pressed
    \/ HotkeyStopCall

SpecHotkey == Init /\ [][NextHotkey]_vars

\* the thread, once started, and a stop() under way each get to take their
\* next step; no message need ever arrive and GetMessageW need never fail
FairHotkey ==
    SpecHotkey /\ WF_vars(HotkeyThread) /\ WF_vars(HotkeyStopCall)

\* ------------------------------------------------------------------------
\* Properties
\* ------------------------------------------------------------------------

ExpireWindow == AUTO_EXPIRE_DAYS * SECONDS_PER_DAY

Ids(rs) == {r.id : r \in rs}

PinnedRows(rs) == {r \in rs : r.pinned}

UnpinnedRows(rs) == {r \in rs : ~r.pinned}

\* the ids of the k rows inserted last, when n ids have been assigned
RecentIds(n, k) == {i \in 1..n : i > n - k}

NonBlankTexts == { <<"a">>, <<"b", "\n", "c", "d">> }

BlankTexts == { <<>>, <<" ", "\n">> }

\* C2: when the call before was add_text(t) for a non-blank t and it
\* inserted, a second add_text(t) returns false and leaves the table as it
\* was.
C2_SecondTextAddRejected ==
    [][\A t \in NonBlankTexts :
          (last.op = "add_text" /\ last.arg = t /\ last.ret /\ add_text(t))
              => (~last'.ret /\ rows' = rows)]_vars

\* C3: when the call before was add_image(b) for a non-empty payload b and
\* it inserted, a second add_image(b) returns false and leaves the table as
\* it was.
C3_SecondImageAddRejected ==
    [][\A b \in ImageInputs :
          (Len(b) > 0 /\ last.op = "add_image" /\ last.arg = b /\ last.ret
             /\ add_image(b))
              => (~last'.ret /\ rows' = rows)]_vars

\* C4, as claimed: once more than the cap of entries have been inserted back
\* to back, the pinned rows are all still there and the unpinned rows are
\* exactly the cap's worth inserted last.
C4_CapOfUnpinnedKept ==
    [][run' > MAX_HISTORY_SIZE =>
          /\ PinnedRows(rows') = PinnedRows(rows)
          /\ Ids(UnpinnedRows(rows')) = RecentIds(seq', MAX_HISTORY_SIZE)]_vars

\* C4, amended: once more than the cap of entries have been inserted back
\* to back, the pinned rows are all still there and the unpinned rows are
\* exactly the (cap - number of pinned rows) inserted last, none when the
\* pinned rows fill the cap.
C4_CapMinusPinnedKept ==
    [][run' > MAX_HISTORY_SIZE =>
          LET pinned == Cardinality(PinnedRows(rows'))
              room == IF pinned < MAX_HISTORY_SIZE
                      THEN MAX_HISTORY_SIZE - pinned ELSE 0
          IN  /\ PinnedRows(rows') = PinnedRows(rows)
              /\ Ids(UnpinnedRows(rows')) = RecentIds(seq', room)]_vars

\* C4 happens: more than the cap inserted back to back into a store that
\* holds a pinned row and has room left beside it
C4_Witness ==
    /\ run > MAX_HISTORY_SIZE
    /\ PinnedRows(rows) # {}
    /\ Cardinality(PinnedRows(rows)) < MAX_HISTORY_SIZE

\* C5: when every insert so far was made back to back into the empty store
\* and there were more of them than the cap, the table holds exactly the cap,
\* namely the rows inserted last, and get of the first id finds nothing.
C5_FillStabilisesAtCap ==
    (run = seq /\ seq > MAX_HISTORY_SIZE) =>
        /\ Cardinality(rows) = MAX_HISTORY_SIZE
        /\ Ids(rows) = RecentIds(seq, MAX_HISTORY_SIZE)
        /\ get_entry(rows, 1) = NULL

\* C5 happens: cap + 1 text rows of different content went in one after the
\* other
C5_Witness ==
    /\ run = seq
    /\ seq = MAX_HISTORY_SIZE + 1
    /\ \A r \in rows : r.content_type = "text" /\ ~r.pinned
    /\ \A r, q \in rows : r.content = q.content => r = q
    /\ <<"a">> \notin {r.content : r \in rows}

\* C6: a step that runs an expiration pass (the throttled one of an insert,
\* or the one of opening the store) leaves no unpinned row older than the
\* window and keeps every pinned row as it was.
C6_ExpirationPass ==
    [][(last_expire_time' # last_expire_time \/ (closed /\ ~closed')) =>
          /\ \A r \in rows' :
                ~r.pinned => r.timestamp >= last_expire_time' - ExpireWindow
          /\ \A r \in rows : r.pinned => r \in rows']_vars

\* C6 happens: a pass has removed an unpinned row while a pinned row that is
\* older still is kept (no eviction and no delete can have removed it)
C6_Witness ==
    /\ seq <= MAX_HISTORY_SIZE
    /\ \E r \in rows :
          /\ r.pinned
          /\ r.timestamp < last_expire_time - ExpireWindow
          /\ \E i \in 1..seq : i > r.id /\ i \notin Ids(rows)

\* C7: after an add_text that returned true, get of the id it assigned
\* returns the row with the content added.
C7_InsertedIsRetrievable ==
    (last.op = "add_text" /\ last.ret) =>
        /\ get_entry(rows, last.id) # NULL
        /\ get_entry(rows, last.id)[1].content = Prefix(last.arg, MAX_CONTENT_LENGTH)

\* C8: add_text of blank content and add_image of the empty payload return
\* false and change neither the table, nor the id counter, nor the time of
\* the last expiration pass.
C8_BlankAddRejected ==
    [][((\E t \in BlankTexts : add_text(t)) \/ add_image(<<>>)) =>
          (~last'.ret /\ UNCHANGED <<rows, seq, last_expire_time>>)]_vars

\* C8 happens: a whitespace-only text was rejected at a moment when an
\* expiration pass was due and had a row to delete
C8_Witness ==
    /\ last.op = "add_text" /\ last.arg = <<" ", "\n">> /\ ~last.ret
    /\ now - last_expire_time >= EXPIRE_INTERVAL
    /\ \E r \in rows : ~r.pinned /\ r.timestamp < now - ExpireWindow

\* C9: a pinned row leaves the table, or changes, only in a delete_entry or
\* a toggle_pin of its own id.
C9_PinnedNeverRemoved ==
    [][\A r \in rows :
          r.pinned => (r \in rows' \/ delete_entry(r.id) \/ toggle_pin(r.id))]_vars

\* C9 happens: a pinned row older than the window has outlived an expiration
\* pass and an eviction
C9_Witness ==
    /\ seq > MAX_HISTORY_SIZE
    /\ Cardinality(rows) = MAX_HISTORY_SIZE
    /\ \E r \in rows : r.pinned /\ r.timestamp < last_expire_time - ExpireWindow

\* C1: the notification caused by paste()'s own clipboard write never adds
\* a row: when the listener handles that notification and what it read is
\* what paste() wrote, the store's rows stay as they were, whatever other
\* pastes and external copies are interleaved with the paste.
C1_OwnWriteNeverStored ==
    [][(cur = "paste" /\ lpc = "forward" /\ captured.owner = "paste")
            => rows' = rows]_vars

\* C10: a paste() whose clipboard write failed has returned with the suppress
\* flag false and without starting its thread; a thread is started, and
\* Ctrl+V sent, only for a call whose write succeeded.
C10_FailedWriteRolledBack ==
    /\ started \subseteq wrote
    /\ pressed \subseteq started
    /\ (ppc = "failed") => (calls \notin wrote)
    /\ (ppc = "idle" /\ calls > 0 /\ calls \notin wrote)
            => (~ignore_next /\ calls \notin started)

\* a failed paste() has returned after an earlier one sent its keystroke,
\* while a clipboard change is still waiting for the listener
C10_Witness ==
    /\ ppc = "idle"
    /\ calls > 0
    /\ calls \notin wrote
    /\ pressed # {}
    /\ queue # <<>>

\* the rows no other row is later than
LatestKept(rs) == {r \in rs : \A q \in rs : q.timestamp <= r.timestamp}

\* a step that is an add of text t, or of image payload b, returning False
TextAddRejected(t) == seq < MaxId /\ add_entry(t, "text", NULL) /\ ~last'.ret

ImageAddRejected(b) == seq < MaxId /\ add_entry(<<>>, "image", b) /\ ~last'.ret

\* C11 as stated: an add is rejected as a duplicate only when its text, or
\* its image hash, is that of the entry inserted most recently before it,
\* also after that entry has been deleted, pinned or evicted.
C11_RejectedOnlyAgainstNewest ==
    [][/\ \A t \in NonBlankTexts :
            TextAddRejected(t)
                => newest = <<"text", Prefix(t, MAX_CONTENT_LENGTH)>>
       /\ \A b \in EditImages :
            ImageAddRejected(b) => newest = <<"image", Sha256Hex(b)>>]_vars

\* C11 amended: an add is rejected as a duplicate only when its text, or its
\* image hash, is that of the row with the latest timestamp still in the
\* table; no other row causes a rejection, pinned or not.
C11_RejectedOnlyAgainstLatestKept ==
    [][/\ \A t \in NonBlankTexts :
            TextAddRejected(t)
                => \E r \in LatestKept(rows) :
                        /\ r.content_type = "text"
                        /\ r.content = Prefix(t, MAX_CONTENT_LENGTH)
       /\ \A b \in EditImages :
            ImageAddRejected(b)
                => \E r \in LatestKept(rows) :
                        r.image_hash = Some(Sha256Hex(b))]_vars

\* an add has just been rejected although the entry inserted last, gone by
\* now, held something else, and another row with the rejected text sits
\* further down pinned or unpinned
C11_Witness ==
    /\ last.op = "add_text"
    /\ ~last.ret
    /\ ~IsBlank(last.arg)
    /\ newest # <<"text", Prefix(last.arg, MAX_CONTENT_LENGTH)>>
    /\ get_entry(rows, seq) = NULL
    /\ \E r \in rows : r.content = Prefix(last.arg, MAX_CONTENT_LENGTH)

\* the text rows holding what an add of t stores
RowsHolding(rs, t) ==
    {r \in rs : r.content_type = "text" /\ r.content = Prefix(t, MAX_CONTENT_LENGTH)}

C13_DeleteAndClearIdempotent ==
    /\ [][/\ \A id \in 1..MaxId :
                delete_entry(id)
                    => /\ rows' = {r \in rows : r.id # id}
                       /\ id \notin Ids(rows')
                       /\ id \notin Ids(rows) => rows' = rows
          /\ clear_all
                => /\ rows' = PinnedRows(rows)
                   /\ UnpinnedRows(rows') = {}
                   /\ UnpinnedRows(rows) = {} => rows' = rows
          /\ \A id \in 1..MaxId :
                (toggle_pin(id) /\ id \notin Ids(rows)) => rows' = rows]_vars
    /\ [](\A id \in 1..MaxId :
            /\ ENABLED (delete_entry(id) /\ othersIdle)
            /\ ENABLED (toggle_pin(id) /\ othersIdle)
            /\ ENABLED (clear_all /\ othersIdle))

\* two entries were added and the second is gone again while the pinned
\* first one stayed: a delete or a clear has acted, and making it again finds
\* the id missing or nothing unpinned
C13_Witness ==
    /\ last = OtherCall
    /\ seq = 2
    /\ Ids(rows) = {1}
    /\ PinnedRows(rows) = rows

\* C14 as stated: toggle_pin(id) made twice in a row leaves the store as
\* toggle_pin(id) made once leaves it.
C14_ToggleTwiceIsToggleOnce ==
    [][\A id \in 1..MaxId :
          toggle_pin(id) => SetPinned(rows', id) = rows']_vars

\* C14 amended: toggle_pin(id) flips the pinned flag of the entry with that
\* id and touches nothing else, so made twice in a row it leaves the store
\* as it was before the first call, and made once it does not.
C14_ToggleTwiceRestores ==
    [][\A id \in 1..MaxId :
          (toggle_pin(id) /\ id \in Ids(rows))
              => /\ SetPinned(rows', id) = rows
                 /\ rows' # rows
                 /\ {r \in rows' : r.id # id} = {r \in rows : r.id # id}
                 /\ \A r \in rows : \A q \in rows' :
                        (r.id = id /\ q.id = id)
                            => /\ q.pinned = ~r.pinned
                               /\ [q EXCEPT !.pinned = r.pinned] = r]_vars

\* an entry pinned while the one added after it is not: a toggle_pin has
\* acted on one entry and on no other
C14_Witness ==
    /\ last = OtherCall
    /\ seq = 2
    /\ Ids(PinnedRows(rows)) = {1}
    /\ Ids(UnpinnedRows(rows)) = {2}

\* q occurs in text, character for character
Contains(text, q) ==
    \E i \in 0..(Len(text) - Len(q)) :
        \A j \in 1..Len(q) : text[i + j] = q[j]

\* q occurs in text, ASCII letters compared without regard to case
ContainsFolded(text, q) ==
    \E i \in 0..(Len(text) - Len(q)) :
        \A j \in 1..Len(q) : FoldCase(text[i + j]) = FoldCase(q[j])

\* the ids of the summaries in a returned list
ListedIds(ret) == {ret[i].id : i \in 1..Len(ret)}

\* the latest call was a search, and the table is as the search saw it
Searched == listed.made /\ Len(listed.search_query) > 0

\* C15 as stated: a search returns exactly the entries whose text, or whose
\* image preview, holds the query as a literal substring.
C15_SearchLiteralSubstring ==
    Searched
        => ListedIds(listed.ret)
              = {r.id : r \in {x \in rows :
                    \/ Contains(x.content, listed.search_query)
                    \/ x.content_type = "image"
                            /\ Contains(x.preview, listed.search_query)}}

\* C15 amended: a search returns exactly the entries whose text, or whose
\* image preview, holds the query as a substring when ASCII letters are
\* compared without regard to case; '%', '_' and the escape character of the
\* query stand for themselves only.
C15_SearchFoldedSubstring ==
    Searched
        => ListedIds(listed.ret)
              = {r.id : r \in {x \in rows :
                    \/ ContainsFolded(x.content, listed.search_query)
                    \/ x.content_type = "image"
                            /\ ContainsFolded(x.preview, listed.search_query)}}

\* a search for "%" returned one entry, the one holding a '%', and not the
\* other entry of the table
C15_Witness ==
    /\ Searched
    /\ listed.search_query = <<"%">>
    /\ Len(listed.ret) = 1
    /\ Cardinality(rows) = 2
    /\ \E r \in rows : r.id = listed.ret[1].id /\ r.content = <<"a", "%">>

\* the latest call was a get_history without a query, and the table is as
\* the call saw it
Paged == listed.made /\ Len(listed.search_query) = 0

\* the rows listed ahead of r: the pinned ones if r is not pinned, and the
\* later ones of r's own group
Ahead(rs, r) ==
    {q \in rs : \/ q.pinned /\ ~r.pinned
                \/ q.pinned = r.pinned /\ q.timestamp > r.timestamp}

SummaryFields ==
    {"id", "content_len", "content_type", "timestamp", "pinned", "preview",
     "image_hash"}

\* C16: get_history(limit, offset) returns at most `limit` summaries, the
\* ones after the first `offset` of the table taken with every pinned entry
\* before every unpinned one and later entries first within each group; a
\* summary carries the entry's hash and the length of its content and
\* neither the content nor the image payload.
C16_PageOfOrderedSummaries ==
    Paged =>
        LET ret == listed.ret
            left == IF Cardinality(rows) > listed.offset
                    THEN Cardinality(rows) - listed.offset ELSE 0
        IN  /\ Len(ret) <= listed.limit
            /\ Len(ret) = IF left < listed.limit THEN left ELSE listed.limit
            /\ \A i \in 1..Len(ret) : \A j \in 1..Len(ret) :
                    i < j => /\ ret[j].pinned => ret[i].pinned
                             /\ ret[i].pinned = ret[j].pinned
                                    => ret[i].timestamp >= ret[j].timestamp
            /\ \A i \in 1..Len(ret) :
                    /\ DOMAIN ret[i] = SummaryFields
                    /\ \E r \in rows :
                          /\ r.id = ret[i].id
                          /\ Cardinality(Ahead(rows, r)) = listed.offset + i - 1
                          /\ ret[i].pinned = r.pinned
                          /\ ret[i].timestamp = r.timestamp
                          /\ ret[i].content_type = r.content_type
                          /\ ret[i].preview = r.preview
                          /\ ret[i].image_hash = r.image_hash
                          /\ ret[i].content_len = Len(r.content)

\* get_history(1, 1) on a table whose older entry is pinned and whose newer
\* entry, an image, is not: the pinned one is skipped and the list is the
\* image's summary with its hash
C16_Witness ==
    /\ Paged
    /\ listed.limit = 1
    /\ listed.offset = 1
    /\ Len(listed.ret) = 1
    /\ listed.ret[1].content_type = "image"
    /\ listed.ret[1].image_hash # NULL
    /\ ~listed.ret[1].pinned
    /\ \E r \in rows : r.pinned /\ r.timestamp < listed.ret[1].timestamp

\* the listener is inside its message loop
InLoop == lpc \in {"wait", "wnd_proc", "read", "forward"}

\* C17: once creating the window or registering it for clipboard
\* notifications has failed, the listener is in Stopped with the readiness
\* signal raised, it is never inside the message loop and the store holds
\* nothing it captured.
C17_SetupFailureStops ==
    monitor.failed # "none" =>
        /\ lpc = "Stopped"
        /\ ~InLoop
        /\ monitor.ready
        /\ rows = {}

\* the part of C17 the code keeps: no window class or no window ends the
\* thread at once, _ready set and nothing captured
C17_NoWindowStops ==
    monitor.failed \in {"class", "window"} =>
        lpc = "Stopped" /\ monitor.ready /\ rows = {}

\* stop() has posted or given up posting, and the thread sits in GetMessageW
\* with nothing in its queue to wake it
StopLost ==
    /\ monitor.stop_pc \in {"join", "done"}
    /\ lpc = "wait"
    /\ queue = <<>>

C19_DamagedFileRecreated ==
    [][(closed /\ file # "ok" /\ last'.op = "__init__")
        => (last'.ret /\ ~closed' /\ file' = "ok" /\ rows' = {})]_vars

\* the part of C19 the code keeps: when the open succeeds on a file that was
\* no database, it is on an empty file made anew
C19_NoDatabaseRecreated ==
    [][(closed /\ file = "not_a_database" /\ last'.op = "__init__" /\ last'.ret)
        => (~closed' /\ file' = "ok" /\ rows' = {} /\ seq' = 0)]_vars

\* C20: every entry in the table has one payload kind: a text entry has
\* neither image_data nor image_hash, and an image entry has empty content,
\* image_data that is not empty, and the hash of that data.
C20_OnePayloadKind ==
    \A r \in rows :
        /\ r.content_type \in {"text", "image"}
        /\ r.content_type = "text" =>
                r.image_data = NULL /\ r.image_hash = NULL
        /\ r.content_type = "image" =>
                /\ r.content = <<>>
                /\ r.image_data # NULL
                /\ Len(r.image_data[1]) > 0
                /\ r.image_hash = Some(Sha256Hex(r.image_data[1]))

\* a text entry and an image entry side by side, the image the later one
C20_Witness ==
    /\ last.op = "add_image"
    /\ last.ret
    /\ \E r \in rows : r.content_type = "text" /\ Len(r.content) > 0
    /\ \E r \in rows : r.content_type = "image" /\ r.id = last.id

C22_IdsNeverReused ==
    /\ [](\A r, q \in rows : r.id = q.id => r = q)
    /\ [](\A r \in rows : r.id <= seq)
    /\ [][/\ seq' >= seq
          /\ \A r \in rows' : (r.id \notin Ids(rows)) => r.id > seq
          /\ \A r \in rows' : \A q \in rows : r.id = q.id => r = [q EXCEPT !.pinned = r.pinned]]_vars

\* the entry with the largest id was deleted and the next insert was given
\* an id above it
C22_Witness ==
    /\ last.op = "add_text"
    /\ last.ret
    /\ last.id = 3
    /\ Ids(rows) = {1, 3}

NoCall == [op |-> "none", arg |-> <<>>]

\* the one entry a clipboard holding c is to give the store: text that is
\* not blank, else the file list joined with newlines, else the bitmap of at
\* most MAX_IMAGE_BYTES bytes turned into a PNG
Chosen(c) ==
    IF c.text # NULL /\ Len(Strip(c.text[1])) > 0
    THEN [op |-> "add_text", arg |-> c.text[1]]
    ELSE IF c.files # NULL
    THEN IF Len(Strip(JoinLines(c.files[1]))) > 0
         THEN [op |-> "add_text", arg |-> JoinLines(c.files[1])]
         ELSE NoCall
    ELSE IF /\ c.dib # NULL
            /\ c.dib[1].len >= 1
            /\ c.dib[1].len <= MAX_IMAGE_BYTES
            /\ c.dib[1].decodable
    THEN [op |-> "add_image", arg |-> c.dib[1].pixels]
    ELSE NoCall

\* what was read, as a clipboard
AsRead(cap) ==
    [text |-> cap.text_content, files |-> cap.file_list, dib |-> cap.raw_dib]

\* C23: a notification that is not suppressed gives the store at most one
\* entry: the clipboard's text if it is not blank, else its file list joined
\* with newlines, else its bitmap if that is MAX_IMAGE_BYTES long or less.
C23_OneEntryByPriority ==
    [][/\ (lpc = "read" /\ lpc' = "forward")
            => Chosen(AsRead(captured')) = Chosen(clip)
       /\ (lpc = "forward" /\ lpc' # "forward")
            => /\ Cardinality(Ids(rows') \ Ids(rows)) <= 1
               /\ seq' <= seq + 1
               /\ IF Chosen(AsRead(captured)) = NoCall
                  THEN UNCHANGED <<rows, seq, last>>
                  ELSE /\ last'.op = Chosen(AsRead(captured)).op
                       /\ last'.arg = Chosen(AsRead(captured)).arg]_vars

\* the joined file list of a clipboard with blank text is in the store, and
\* the bitmap of exactly MAX_IMAGE_BYTES bytes has just been added
C23_Witness ==
    /\ lpc = "wait"
    /\ last.op = "add_image"
    /\ last.ret
    /\ clip = DibClip("ext", Dib(MAX_IMAGE_BYTES, TRUE))
    /\ \E r \in rows : r.content_type = "image" /\ r.id = last.id
    /\ \E r \in rows : r.content_type = "text" /\ r.content = <<"p", "\n", "q">>

\* C24: a capture that gives nothing to store (a bitmap that does not decode
\* or is over the limit, a clipboard with none of the three formats, a read
\* that raises) adds no entry and leaves the listener in its loop, waiting
\* for the next notification, which it can always take.
C24_BadCaptureDropped ==
    /\ [](InLoop)
    /\ [](lpc = "wait" /\ queue # <<>> => ENABLED get_message)
    /\ [][/\ (lpc = "read" /\ lpc' # "read")
                => /\ UNCHANGED <<rows, seq>>
                   /\ lpc' \in {"forward", "wait"}
                   /\ (lpc' = "forward" /\ Chosen(clip) = NoCall)
                        => Chosen(AsRead(captured')) = NoCall
          /\ (lpc = "forward" /\ lpc' # "forward"
                /\ Chosen(AsRead(captured)) = NoCall)
                => /\ UNCHANGED <<rows, seq>>
                   /\ lpc' = "wait"
                   /\ captured' = NoCapture]_vars

\* the notification for an undecodable bitmap has been taken and handled:
\* nothing is stored and the listener is back waiting
C24_Witness ==
    /\ lpc = "wait"
    /\ cur = "none"
    /\ clip = DibClip("ext", Dib(1, FALSE))
    /\ queue = <<>>
    /\ captured = NoCapture
    /\ rows = {}
    /\ seq = 0

\* C25: a paste() call touches the clipboard only at its write, and it comes
\* to its write only out of set_ignore_next(), which has left the flag set:
\* no paste writes the clipboard before its own set.
C25_SetBeforeWrite ==
    [][/\ (clip' # clip /\ clip'.owner = "paste") => ppc = "write"
       /\ (Len(queue') > Len(queue) /\ queue'[Len(queue')] \in {"paste", "emptied"})
            => ppc = "write"
       /\ (ppc' = "write" /\ ppc # "write")
            => (ppc = "set_ignore" /\ ignore_next' /\ clip' = clip)
       /\ (ppc = "idle" /\ ppc' # "idle") => ppc' = "set_ignore"]_vars

\* a paste has written the clipboard and its flag is still set
C25_Witness ==
    /\ ppc = "written"
    /\ calls \in wrote
    /\ clip.owner = "paste"
    /\ ignore_next

\* C26: the listener tests and clears the flag in one step. On a set flag the
\* notification is dropped unread and the flag is false after it; on a clear
\* flag the notification goes on to be read. The flag rises only in
\* set_ignore_next() and falls only there or in clear_ignore(), so a set is
\* neither lost nor used for two notifications.
C26_CheckAndClearAtomic ==
    [][/\ (lpc = "wnd_proc" /\ lpc' # "wnd_proc")
            => IF ignore_next
               THEN /\ ~ignore_next'
                    /\ lpc' = "wait"
                    /\ cur' = "none"
                    /\ UNCHANGED <<rows, seq, last, captured>>
               ELSE /\ ~ignore_next'
                    /\ lpc' = "read"
                    /\ cur' = cur
       /\ (~ignore_next /\ ignore_next')
            => (ppc = "set_ignore" /\ ppc' = "write")
       /\ (ignore_next /\ ~ignore_next')
            => \/ lpc = "wnd_proc" /\ lpc' = "wait"
               \/ ppc = "failed" /\ ppc' = "idle"
       /\ (ppc = "set_ignore" /\ ppc' = "write") => ignore_next']_vars

\* the notification of the one paste made was dropped on the flag, and the
\* next notification, another application's, is being read with the flag
\* clear and nothing given to the store in between
C26_Witness ==
    /\ lpc = "read"
    /\ cur = "ext"
    /\ ~ignore_next
    /\ wrote = {1}
    /\ calls = 1
    /\ ppc = "idle"
    /\ queue = <<>>
    /\ seq = 1
    /\ last.ret
    /\ last.id = 1
    /\ clip.owner = "ext"

\* C27: the notification of a clipboard change made by another application
\* is never dropped on the flag: from _wnd_proc it always goes on to be read.
C27_ExternalNeverIgnored ==
    [][(lpc = "wnd_proc" /\ cur = "ext" /\ lpc' # "wnd_proc")
        => lpc' = "read"]_vars

\* the part of C27 the code keeps: while no paste() has set the flag, every
\* notification is read
C27_ReadWhileFlagClear ==
    [][(lpc = "wnd_proc" /\ ~ignore_next /\ lpc' # "wnd_proc")
        => lpc' = "read"]_vars

\* a notification caused by a paste() write is waiting in the queue or has
\* been taken and not yet tested against the flag
PasteNotificationPending ==
    \/ \E i \in 1..Len(queue) : queue[i] = "paste"
    \/ lpc = "wnd_proc" /\ cur = "paste"

\* C28: with the listener in its loop, no paste() call under way and no
\* notification of a paste write still to be delivered, the flag is false.
C28_FlagNotLeftRaised ==
    (InLoop /\ ppc = "idle" /\ ~PasteNotificationPending) => ~ignore_next

\* a paste() whose write emptied the clipboard and then failed has returned,
\* the notification of the emptying has been handled, and the flag is false
C28_Witness ==
    /\ lpc = "wait"
    /\ ppc = "idle"
    /\ calls = 1
    /\ wrote = {}
    /\ queue = <<>>
    /\ clip = EmptyClip("paste")
    /\ ~ignore_next

\* a step that inserted a row
InsertStep == seq' = seq + 1 /\ last'.ret /\ last'.id = seq'

\* id, pin and time of a row
Brief(r) == [id |-> r.id, pinned |-> r.pinned, timestamp |-> r.timestamp]

\* the table between the INSERT and the cleanup of an insert step
WithInserted ==
    {Brief(r) : r \in rows}
        \cup {[id |-> seq + 1, pinned |-> FALSE, timestamp |-> now]}

\* what the cleanup of an insert step deleted
Evicted == WithInserted \ {Brief(r) : r \in rows'}

C29_DownToCap ==
    [][InsertStep =>
          /\ Cardinality(rows') <= MAX_HISTORY_SIZE
          /\ Cardinality(rows) + 1 > MAX_HISTORY_SIZE
                => Cardinality(rows') = MAX_HISTORY_SIZE
          /\ \A d \in Evicted : ~d.pinned
          /\ \A d \in Evicted : \A r \in rows' :
                ~r.pinned => d.timestamp < r.timestamp]_vars

\* C30: what the cleanup of an insert deletes is min(count - cap, number of
\* unpinned entries) entries when the count is over the cap and none
\* otherwise; every one of them is unpinned, and none is newer than an
\* unpinned entry that stays.
C30_OldestUnpinnedFirst ==
    [][InsertStep =>
          LET count == Cardinality(WithInserted)
              unpinned == Cardinality({b \in WithInserted : ~b.pinned})
              excess == count - MAX_HISTORY_SIZE
          IN  /\ {Brief(r) : r \in rows'} \subseteq WithInserted
              /\ Cardinality(Evicted) =
                    IF count > MAX_HISTORY_SIZE
                    THEN (IF excess < unpinned THEN excess ELSE unpinned)
                    ELSE 0
              /\ \A d \in Evicted : ~d.pinned
              /\ \A d \in Evicted : \A r \in rows' :
                    ~r.pinned => d.timestamp <= r.timestamp]_vars

\* two inserts in a row into a store with a pinned entry: the second evicted
\* the first, the older of the two unpinned, and the pinned one, older
\* still, stayed
C30_Witness ==
    /\ last.ret
    /\ last.id = 3
    /\ run >= 2
    /\ Ids(rows) = {1, 3}
    /\ \E r \in rows : r.id = 1 /\ r.pinned
    /\ \E r \in rows : r.id = 3 /\ ~r.pinned

\* ------------------------------------------------------------------------
\* C31: between the calls of any sequence of adds, deletes, pin toggles and
\* clears the table never holds more than MAX_HISTORY_SIZE rows, however
\* many of them are pinned.
C31_CountWithinCap == Cardinality(rows) <= MAX_HISTORY_SIZE

\* C31 happens: an add has just returned True on a table whose rows are
\* all pinned and fill the cap
C31_Witness ==
    /\ last.op \in {"add_text", "add_image"}
    /\ last.ret
    /\ Cardinality(rows) = MAX_HISTORY_SIZE
    /\ \A r \in rows : r.pinned

\* ------------------------------------------------------------------------
\* a step that opens the store
OpenStep == closed /\ ~closed'

BothAdded ==
    /\ \A th \in Threads :
          /\ thread[th].pc = "idle"
          /\ thread[th].op = "add_entry"
          /\ thread[th].peer
          /\ thread[th].fresh
    /\ thread["listener"].arg = thread["caller"].arg

\* what the two adds returned
BothReturned == {thread[th].ret : th \in Threads}

\* C33: of two adds of the same content made at once by the listener's
\* thread and a caller's, on a store whose latest entry is another, exactly
\* one inserts and the other returns False; and no get_history sees more
\* rows than the cap.
C33_OneOfTwoAddsInserts ==
    /\ BothAdded => BothReturned = {"true", "false"}
    /\ \A th \in Threads :
          thread[th].op = "get_history" => thread[th].seen <= MAX_HISTORY_SIZE

\* the part of C33 the code keeps: the same, on a store that is not filled
\* to the cap with pinned entries
C33_OneOfTwoUnlessAllPinned ==
    /\ (BothAdded /\ ~(Cardinality(rows) = MAX_HISTORY_SIZE
                          /\ \A r \in rows : r.pinned))
          => BothReturned = {"true", "false"}
    /\ \A th \in Threads :
          thread[th].op = "get_history" => thread[th].seen <= MAX_HISTORY_SIZE

\* ------------------------------------------------------------------------
\* what a call returns on a closed store
ClosedReturn(op) ==
    CASE op = "add_entry" -> "false"
      [] op = "get_history" -> "empty"
      [] op \in {"get_entry", "get_image_data"} -> "notfound"
      [] OTHER -> "done"

\* C34: once close() has returned the table is never touched again and no
\* call reaches the connection that was released: add_entry returns False,
\* get_history an empty list, get_entry and get_image_data None, and
\* delete_entry, toggle_pin and clear_all return having done nothing,
\* however close() falls between the steps of the calls of other threads.
C34_ClosedStoreInert ==
    [][/\ \A th \in Threads : thread'[th].ret # "raised"
       /\ closed =>
            /\ closed'
            /\ UNCHANGED <<rows, seq, last_expire_time>>
            /\ \A th \in Threads :
                  (thread'[th] # thread[th] /\ thread'[th].pc = "idle")
                      => /\ thread'[th].ret = ClosedReturn(thread'[th].op)
                         /\ thread'[th].seen = 0]_vars

\* C34 happens: an add that had passed the unlocked look at _closed has
\* returned False on a store closed meanwhile, into which no row ever went
C34_Witness ==
    /\ closed
    /\ rows = {}
    /\ seq = 0
    /\ \E th \in Threads :
          /\ thread[th].op = "add_entry"
          /\ thread[th].pc = "idle"
          /\ thread[th].fresh
          /\ thread[th].ret = "false"

\* ------------------------------------------------------------------------
\* where the listener and the paste engine are between their OpenClipboard
\* and their CloseClipboard
ReadHolds == {"formats", "close", "close_raised"}

WriteHolds == {"set", "close", "close_raised"}

\* C35: the listener has the clipboard open only from its OpenClipboard to
\* the CloseClipboard of its `finally`, and the paste engine likewise,
\* whether or not the calls in between raised; the listener is never at
\* its decoding and forwarding with the clipboard open.
C35_ClipboardAlwaysReleased ==
    /\ opened = "listener" <=> lpc \in ReadHolds
    /\ opened = "paste" <=> ppc \in WriteHolds
    /\ lpc = "forward" => opened # "listener"

\* C35 happens: the listener is forwarding what it read, its clipboard
\* closed, while the paste engine has the clipboard open after a call that
\* raised
C35_Witness ==
    /\ lpc = "forward"
    /\ captured.text_content # NULL
    /\ opened = "paste"
    /\ ppc = "close_raised"

\* C36: neither retry loop calls OpenClipboard more than 3 times. When the
\* listener's third call fails nothing is read or stored for the message
\* and the listener is back in its loop, still registered; when the paste
\* engine's third call fails the write has failed and the clipboard is left
\* as it was, open by whoever had it; and no step of either closes a
\* clipboard another has open.
C36_BoundedRetry ==
    [][/\ attempt'.listener <= 3
       /\ attempt'.paste <= 3
       /\ (lpc = "read_retry" /\ attempt.listener = 2 /\ lpc' # lpc
              /\ opened # "none")
            => /\ lpc' = "wait"
               /\ cur' = "none"
               /\ monitor'.listening
               /\ UNCHANGED <<rows, seq, captured, opened, clip>>
       /\ (ppc = "open_retry" /\ attempt.paste = 2 /\ ppc' # ppc
              /\ opened # "none")
            => /\ ppc' = "failed"
               /\ UNCHANGED <<wrote, opened, clip, queue>>
       /\ (opened # "listener" /\ lpc' # lpc) => opened' \in {opened, "listener"}
       /\ (opened # "paste" /\ ppc' # ppc) => opened' \in {opened, "paste"}]_vars

\* C36 happens: with the clipboard held open by another application the
\* listener has given up after three calls and is waiting for the next
\* message, nothing stored, and the paste engine has given up after three
\* calls with its write failed
C36_Witness ==
    /\ opened = "other"
    /\ attempt.listener = ReadAttempts
    /\ lpc = "wait"
    /\ attempt.paste = attempts
    /\ ppc = "failed"
    /\ wrote = {}

\* ------------------------------------------------------------------------
\* the listener is past its loop, taking down what it set up
InTeardown == lpc \in {"cleanup", "destroy_window", "unregister_class"}

\* C37: when the listener leaves its message loop, on WM_QUIT, on a cleared
\* _running or on a GetMessageW error, it goes through
\* RemoveClipboardFormatListener, DestroyWindow and UnregisterClassW in this
\* order and ends with none of the three left: the window is a format
\* listener only while it exists, it exists only while its class is
\* registered, and the callback reference is held while the window exists.
C37_TeardownInOrder ==
    [][/\ (InLoop /\ ~InLoop') => lpc' = "cleanup"
       /\ (lpc = "cleanup" /\ lpc' # lpc)
            => /\ lpc' = "destroy_window"
               /\ ~monitor'.listening /\ monitor'.window /\ monitor'.registered
       /\ (lpc = "destroy_window" /\ lpc' # lpc)
            => /\ lpc' = "unregister_class"
               /\ ~monitor'.listening /\ ~monitor'.window /\ monitor'.registered
       /\ (lpc = "unregister_class" /\ lpc' # lpc)
            => /\ lpc' = "Stopped"
               /\ ~monitor'.listening /\ ~monitor'.window /\ ~monitor'.registered
       /\ monitor'.listening => monitor'.window
       /\ monitor'.window => (monitor'.registered /\ monitor'.wndproc_ref)]_vars

\* C37 happens: the loop was left on a GetMessageW error, with no stop()
\* called, and the thread has ended with listener, window and class gone
C37_Witness ==
    /\ lpc = "Stopped"
    /\ monitor.running
    /\ monitor.failed = "none"
    /\ monitor.stop_pc = "idle"
    /\ monitor.wndproc_ref
    /\ ~monitor.listening /\ ~monitor.window /\ ~monitor.registered

\* ------------------------------------------------------------------------
\* the threads started for paste call c
TasksOf(c) == {k \in DOMAIN tasks : tasks[k].call = c}

\* the threads that have made their SendInput call
TasksDone == {k \in DOMAIN tasks : tasks[k].pc = "done"}

\* the event is a press or a release of the key
IsKey(e, vk, up) == e.wVk = vk /\ (e.dwFlags = KEYEVENTF_KEYUP) = up

\* C38: for every paste() that has returned after a successful write one
\* thread has been started, and none for any other; paste() returns with
\* the thread still before its first step. The thread calls
\* SetForegroundWindow exactly when its handle is given and still a window,
\* and whether it did or not it then sends Ctrl down, V down, V up, Ctrl up
\* in this order.
C38_OneTaskThenCtrlV ==
    [][/\ \A c \in 1..MaxPastes :
            Cardinality(TasksOf(c))' =
                IF c \in wrote' /\ (c < calls' \/ ppc' = "idle") THEN 1 ELSE 0
       /\ Len(tasks') > Len(tasks)
            => /\ ppc = "written" /\ ppc' = "idle"
               /\ tasks'[Len(tasks')].pc = "focus"
               /\ sent' = sent
       /\ \A k \in DOMAIN tasks :
            (tasks[k].pc = "focus" /\ tasks'[k] # tasks[k])
              => /\ tasks'[k].pc = "press"
                 /\ tasks'[k].focused = (/\ tasks[k].target_hwnd # 0
                                         /\ tasks[k].target_hwnd \in windows)
       /\ Len(sent') = 4 * Cardinality(TasksDone')
       /\ \A i \in 1..Len(sent') :
            CASE i % 4 = 1 -> IsKey(sent'[i], VK_CONTROL, FALSE)
              [] i % 4 = 2 -> IsKey(sent'[i], VK_V, FALSE)
              [] i % 4 = 3 -> IsKey(sent'[i], VK_V, TRUE)
              [] OTHER -> IsKey(sent'[i], VK_CONTROL, TRUE)]_vars

\* C38 happens: a thread whose window was closed before it ran has skipped
\* the focus step and sent its four events, while paste() is idle again
C38_Witness ==
    /\ ppc = "idle"
    /\ \E k \in DOMAIN tasks :
          /\ tasks[k].pc = "done"
          /\ tasks[k].target_hwnd # 0
          /\ ~tasks[k].focused
    /\ Len(sent) >= 4

\* C39: whenever the listener has put a bitmap file header together, its
\* pixel offset is 14 + header size + mask bytes + palette count * 4, where
\* the palette count is 2^bit depth when the stored count is 0 and the bit
\* depth is at most 8, and the mask bytes are 12 (bit fields) or 16 (alpha
\* bit fields) only for a 40-byte header and 0 otherwise; and its length
\* field is the payload's length + 14.
C39_HeaderFromFields ==
    captured.bmp_header # NULL =>
        LET dib == captured.raw_dib[1]
            h == dib.header[1]
            palette_count == IF h.clr_used = 0 /\ h.bit_count <= 8
                             THEN 2 ^ h.bit_count
                             ELSE h.clr_used
            mask_bytes == CASE h.bi_size = 40 /\ h.compression = 3 -> 12
                            [] h.bi_size = 40 /\ h.compression = 6 -> 16
                            [] OTHER -> 0
        IN  /\ captured.bmp_header[1].bfOffBits =
                   14 + h.bi_size + mask_bytes + palette_count * 4
            /\ captured.bmp_header[1].bfSize = dib.len + 14

\* a 40-byte header with bit fields and an 8-bit default palette: the pixels
\* start at 14 + 40 + 12 + 256 * 4
C39_Witness ==
    /\ captured.bmp_header # NULL
    /\ captured.raw_dib[1].header[1] =
           [bi_size |-> 40, bit_count |-> 8, compression |-> 3, clr_used |-> 0]
    /\ captured.bmp_header[1].bfOffBits = 1090
    /\ captured.bmp_header[1].bfSize = 15

\* C40: however stop() interleaves with start() and the hotkey thread's
\* startup, once stop() has been called and the thread has been started the
\* thread leaves its message loop and ends with the hotkey unregistered.
C40_StopEndsHotkeyThread ==
    (hotkey.stop_pc # "idle" /\ hotkey.pc # "Uninitialized")
        ~> (hotkey.pc = "Stopped" /\ ~hotkey.held)

====
